---- MODULE Spec2Model ----
(***************************************************************************)
(* Position-resolution and range-extraction engine of the Qubic DEXTools   *)
(* adapter: the RPC client (two variants of services/qubicRpcClient), the  *)
(* block and events controllers (two variants each) and the data           *)
(* transformer, run against a small upstream ledger whose endpoints may    *)
(* fail.                                                                   *)
(*                                                                         *)
(* A request is one action: the handler runs to completion on the cache    *)
(* it finds, with the set `down` of upstream endpoints that fail while it  *)
(* runs drawn from Outages.                                                *)
(***************************************************************************)
EXTENDS Integers, Sequences, FiniteSets, TLC

VARIABLES world, head, now, client, ctl, cache, last, served, inflight, requestCounts,
          paging

vars == <<world, head, now, client, ctl, cache, last, served, inflight, requestCounts,
          paging>>

---------------------------------------------------------------------------
(* Bounds of the model.                                                    *)

\* page size of the epoch listing requests (500 in the source), scaled
PageSize == 2
\* page size used by getLatestTick of client A (100 in the source), scaled
LatestPageSize == 2
\* the upstream head moves from MinHead up to MaxHead
MaxHead == 15
\* the clock advances MaxClockSteps times by ClockStep milliseconds
MaxClockSteps == 1
\* a behaviour serves at most MaxRequests requests
\* the largest Number; beyond it parseInt answers Infinity
NumberMaxValue == 200000
\* the rate limiter is followed for MaxArrivals requests and MaxWindowSteps
\* steps of the clock; RATE_LIMIT requests per window are let through (100 in
\* app.js, scaled like the page sizes)
MaxArrivals == 6
MaxWindowSteps == 3
RATE_LIMIT == 3
\* upstream serves at most MaxDataPages pages with ticks to one paging loop
MaxDataPages == 2
MaxRequests == 2

MinHead == 14
ClockStart == 100000
ClockStep == 30000

---------------------------------------------------------------------------
(* Program constants.                                                      *)

LATEST_BLOCK_SAFETY_BUFFER == 10
STATUS_TTL == 30000
FALLBACK_EPOCH == 152
MAX_PAGES == 2
RECENT_TICKS_MAX == 2 * LatestPageSize
SAFER_TICKS_COUNT == 5

\* a field that the upstream record does not carry
Absent == -1

Min(a, b) == IF a < b THEN a ELSE b
Max(a, b) == IF a > b THEN a ELSE b
Abs(a) == IF a < 0 THEN -a ELSE a

---------------------------------------------------------------------------
(* The upstream ledger.  A world fixes the epoch of /v1/status, the tick   *)
(* listing of every epoch (in the order upstream serves it) and the        *)
(* transactions of every tick.                                             *)

\* a transaction without a type; an event type the table does not hold (null)
NoType == ""
NoEventType == "null"

StatusEpoch == 7

\* per world: the tick numbers every epoch lists, the listed ticks that
\* carry no timestamp, the listed ticks marked empty, and the transactions
\* << id, type, eventIndex >> of every tick
Worlds ==
  << \* 1: the epoch has just rolled over; epoch 1 is older than StatusEpoch - 5
     [ ticks |-> (7 :> << 14, 13, 12 >>) @@ (6 :> << 10, 9, 8, 7, 6, 5, 3 >>)
              @@ (1 :> << 2, 1 >>),
       bare  |-> {},
       empty |-> {},
       txs   |-> (12 :> << <<121, "ADD_LIQUIDITY", 2>>, <<122, "TRANSFER", 3>>,
                           <<123, "PAIR_CREATED", 1>> >>)
              @@ (5 :> << <<51, "SWAP", Absent>>, <<52, "SWAP", Absent>> >>)
              @@ (3 :> << <<31, "SWAP", 1>> >>)
              @@ (1 :> << <<11, "EXIT_POOL", 1>> >>) ],
     \* 2: one long-lived epoch; ticks above 6 are empty and not listed
     [ ticks |-> (7 :> << 6, 5, 4, 3, 2, 1 >>),
       bare  |-> {5},
       empty |-> {},
       txs   |-> (4 :> << <<41, "SWAP", 2>>, <<42, "JOIN_POOL", 1>> >>)
              @@ (3 :> << <<31, NoType, 1>> >>)
              @@ (2 :> << <<21, "CREATE_PAIR", 1>> >>) ],
     \* 3: an epoch holding ticks 1000, 1002, 1004 with 2, 0 and 1 transactions
     [ ticks |-> (7 :> << 1004, 1002, 1000 >>),
       bare  |-> {},
       empty |-> {},
       txs   |-> (1000 :> << <<1, "SWAP", 1>>, <<2, "REMOVE_LIQUIDITY", 2>> >>)
              @@ (1004 :> << <<3, "EXCHANGE", 1>> >>) ],
     \* 4: tick 7 is listed as empty; the previous epoch skips tick 3
     [ ticks |-> (7 :> << 14, 13, 12, 11, 10, 9, 8, 7 >>) @@ (6 :> << 6, 5, 4, 2, 1 >>),
       bare  |-> {},
       empty |-> {7},
       txs   |-> (4 :> << <<41, "SWAP", 1>> >>)
              @@ (2 :> << <<21, "EXIT_POOL", 1>>, <<22, "SWAP", 2>> >>) ],
     \* 5: an epoch of seven pages listed oldest first; tick 114 is not listed
     [ ticks |-> (7 :> << 101, 102, 103, 104, 105, 106, 107, 108, 109, 110, 111, 112,
                         113, 115 >>),
       bare  |-> {},
       empty |-> {},
       txs   |-> << >> ]
  >>

\* the ledgers the requests are served from; the last one is used by the
\* calls of the page search alone
RequestWorlds == 1..4

\* the record upstream lists for tick n of epoch e in world w
RawTick(w, n, e) ==
  [ tickNumber |-> n,
    timestamp  |-> IF n \in w.bare THEN Absent ELSE n * 1000,
    epoch      |-> e,
    isEmpty    |-> n \in w.empty ]

Txn(t) == [id |-> t[1], type |-> t[2], eventIndex |-> t[3]]

ListingOf(w, e) ==
  IF e \in DOMAIN w.ticks
  THEN [ i \in 1..Len(w.ticks[e]) |-> RawTick(w, w.ticks[e][i], e) ]
  ELSE << >>

TxsOf(w, t) ==
  IF t \in DOMAIN w.txs THEN [ i \in 1..Len(w.txs[t]) |-> Txn(w.txs[t][i]) ] ELSE << >>

\* GET /v2/epochs/{e}/ticks without paging
Listing(e) == ListingOf(Worlds[world], e)
\* GET /v2/ticks/{t}/transactions
UpTxs(t) == TxsOf(Worlds[world], t)

\* page p (from 0) of a listing
PageOf(list, p, size) ==
  IF p < 0 \/ p * size >= Len(list) THEN << >>
  ELSE SubSeq(list, p * size + 1, Min(Len(list), (p + 1) * size))

\* the endpoints a request may find failing
EpStatus == << "status" >>
\* /v1/status answers, but without an epoch
EpStatusNoEpoch == << "status", "no epoch" >>
EpHead == << "head" >>
EpPage(e, p) == << "page", e, p >>
EpTx(t) == << "tx", t >>

Outages ==
  { {} }
  \cup { {EpStatus}, {EpHead} }
  \cup { {EpPage(e, p)} : e \in {StatusEpoch, StatusEpoch - 1}, p \in 0..2 }
  \cup { {EpTx(t)} : t \in {3, 4, 5, 12, 14} }
  \cup { {EpTx(t) : t \in 1..16} }
  \cup { {EpTx(4), EpTx(6)}, {EpTx(5), EpTx(6)}, {EpTx(12), EpTx(14)} }
  \cup { {EpPage(StatusEpoch, p) : p \in 0..8} }

\* a fetched page, or nothing when the request fails
FetchPage(epoch, page, size, down) ==
  IF EpPage(epoch, page) \in down THEN << >> ELSE PageOf(Listing(epoch), page, size)

---------------------------------------------------------------------------
(* Array helpers.                                                          *)

\* Array.prototype.sort with a comparator that orders by the numeric keys
\* (k1[i], k2[i]) of element i, ascending: a stable sort
StableSort(s, k1, k2) ==
  LET n == Len(s)
      before(j, i) == k1[j] < k1[i] \/ (k1[j] = k1[i] /\ k2[j] < k2[i])
      rank(i) == Cardinality({ j \in 1..n : before(j, i) \/ (~before(i, j) /\ j < i) }) + 1
  IN [ r \in 1..n |-> s[CHOOSE i \in 1..n : rank(i) = r] ]

\* undefined / null where a tick record is expected
NoTick == [none |-> TRUE]

\* Array.prototype.find: the element at the first of the matching indices,
\* or undefined
FirstAt(s, hits) ==
  IF hits = {} THEN NoTick
  ELSE s[CHOOSE i \in hits : \A j \in hits : i <= j]

\* the first tick of a list that carries number n
FindTick(ts, n) == FirstAt(ts, { i \in 1..Len(ts) : ts[i].tickNumber = n })

\* ticks.filter(t => lo <= t.tickNumber && t.tickNumber <= hi)
TicksBetween(ts, lo, hi) == SelectSeq(ts, LAMBDA t : lo <= t.tickNumber /\ t.tickNumber <= hi)

\* the first count ticks of a sequence
Take(ts, count) == SubSeq(ts, 1, Min(count, Len(ts)))

\* obj[key] = value
Put_NoWrite(f, k, v) == f
Put(f, k, v) == (k :> v) @@ f

---------------------------------------------------------------------------
(* The cache of the RPC client and the helpers every method shares.        *)

NoStatus == [none |-> TRUE]

EmptyCache ==
  [ epochData |-> << >>, ticks |-> << >>, status |-> NoStatus, statusTimestamp |-> 0,
    epochRanges |-> << >>, transactions |-> << >> ]

\* normalizeTickData: tickNumber, timestamp (the clock when upstream sent
\* none), epoch, and every other field of the upstream record
normalizeTickData(t) ==
  [ tickNumber |-> t.tickNumber,
    timestamp  |-> IF t.timestamp = Absent THEN now ELSE t.timestamp,
    epoch      |-> t.epoch,
    isEmpty    |-> t.isEmpty ]

NormalizeAll(ts) == [ i \in 1..Len(ts) |-> normalizeTickData(ts[i]) ]

\* for (const tick of ticks) this.cache.ticks[tick.tickNumber] = tick
CacheTicks(c, ts) ==
  LET nums == { ts[i].tickNumber : i \in 1..Len(ts) }
      lastOf(k) == CHOOSE i \in 1..Len(ts) :
                     /\ ts[i].tickNumber = k
                     /\ \A j \in 1..Len(ts) : ts[j].tickNumber = k => j <= i
  IN [ c EXCEPT !.ticks = [ k \in (DOMAIN c.ticks) \cup nums |->
                              IF k \in nums THEN ts[lastOf(k)] ELSE c.ticks[k] ] ]

\* a record that carries the requested number and the clock instead of data
Placeholder(n, e) == [tickNumber |-> n, timestamp |-> now, epoch |-> e, isEmpty |-> FALSE]

Zeros(ts) == [ i \in 1..Len(ts) |-> 0 ]
SortTicksDesc(ts) == StableSort(ts, [ i \in 1..Len(ts) |-> -ts[i].tickNumber ], Zeros(ts))
SortTicksAsc(ts) == StableSort(ts, [ i \in 1..Len(ts) |-> ts[i].tickNumber ], Zeros(ts))

TickNumbers(ts) == { ts[i].tickNumber : i \in 1..Len(ts) }

\* what GET /v1/status does: the request fails, the body carries no
\* lastProcessedTick.epoch, or it carries the epoch
StatusResponse(down) ==
  CASE EpStatus \in down -> "fail"
    [] EpStatus \notin down /\ EpStatusNoEpoch \in down -> "noEpoch"
    [] OTHER -> "epoch"

\* this.cache.status && (now - this.cache.statusTimestamp) < 30000
StatusIsFresh_Inclusive(c) ==
  c.status # NoStatus /\ (now - c.statusTimestamp) <= STATUS_TTL
StatusIsFresh(c) ==
  c.status # NoStatus /\ (now - c.statusTimestamp) < STATUS_TTL

\* getCurrentEpoch: the cached status while it is younger than 30 s, else a
\* fresh /v1/status, else the known epoch 152; called tells whether the
\* status request was issued
getCurrentEpoch(c, down) ==
  CASE StatusIsFresh(c) -> [cache |-> c, val |-> c.status.epoch, called |-> FALSE]
    [] ~StatusIsFresh(c) /\ StatusResponse(down) = "epoch" ->
         [cache |-> [c EXCEPT !.status = [epoch |-> StatusEpoch],
                              !.statusTimestamp = now],
          val |-> StatusEpoch, called |-> TRUE]
    [] OTHER -> [cache |-> c, val |-> FALLBACK_EPOCH, called |-> TRUE]

\* getTransactionsForTick.  Client A answers from its transaction cache,
\* caches what it fetches and turns a failed fetch into an empty list;
\* client B fetches every time and lets the failure propagate.
\* if (this.cache.transactions[tickNumber]): an array, also an empty one,
\* counts as present
TransactionsCached_NonEmpty(c, t) ==
  t \in DOMAIN c.transactions /\ Len(c.transactions[t]) > 0
TransactionsCached(c, t) == t \in DOMAIN c.transactions

getTransactionsForTick(c, t, down) ==
  IF client = "A" /\ TransactionsCached(c, t)
  THEN [cache |-> c, txs |-> c.transactions[t], called |-> FALSE, threw |-> FALSE]
  ELSE IF EpTx(t) \in down
  THEN [cache |-> c, txs |-> << >>, called |-> TRUE, threw |-> client = "B"]
  ELSE LET fetched(txs) ==
             [ cache  |-> IF client = "A" THEN [c EXCEPT !.transactions = Put(@, t, txs)]
                          ELSE c,
               txs    |-> txs,
               called |-> TRUE,
               threw  |-> FALSE ]
       IN fetched(UpTxs(t))

---------------------------------------------------------------------------
(* Client A: getLatestTick and getRecentValidTicks.                        *)

\* the loop over the most recent pages 0 .. MAX_PAGES - 1 of the epoch
RECURSIVE A_recentPages(_, _, _, _)
A_recentPages(cur, page, recent, down) ==
  IF page >= MAX_PAGES \/ Len(recent) >= RECENT_TICKS_MAX THEN recent
  ELSE IF EpPage(cur, page) \in down THEN recent
  ELSE A_recentPages(cur, page + 1,
                     recent \o NormalizeAll(Take(PageOf(Listing(cur), page, LatestPageSize),
                                                 RECENT_TICKS_MAX - Len(recent))),
                     down)

\* the ticks getLatestTick collects: the estimated page, and the most recent
\* pages when the estimated page does not hold the safe tick
A_recentTicks(cur, safe, down) ==
  LET estimated(recent) ==
        IF safe \in TickNumbers(recent) THEN recent
        ELSE A_recentPages(cur, 0, recent, down)
  IN estimated(NormalizeAll(FetchPage(cur, safe \div LatestPageSize, LatestPageSize, down)))

\* the newest tick of the first page of the previous epoch
A_prevNewest(cur, down) ==
  LET newestOf(prevTicks) ==
        IF Len(prevTicks) > 0 THEN normalizeTickData(SortTicksDesc(prevTicks)[1])
        ELSE NoTick
  IN newestOf(FetchPage(cur - 1, 0, LatestPageSize, down))

\* the tick getLatestTick settles on, given the ticks it has collected
A_pickSafeTick(recentSorted, safe, prevNewest) ==
  LET exact == FindTick(recentSorted, safe)
      older == TicksBetween(recentSorted, 0, safe)
  IN IF exact # NoTick THEN [tick |-> exact, path |-> "exact"]
     ELSE IF Len(older) > 0 THEN [tick |-> older[1], path |-> "older"]
     ELSE IF Len(recentSorted) > 0
          THEN [tick |-> recentSorted[Len(recentSorted)], path |-> "oldestRecent"]
     ELSE IF prevNewest # NoTick THEN [tick |-> prevNewest, path |-> "prevEpoch"]
     ELSE [tick |-> NoTick, path |-> "none"]

A_getLatestTick(c0, down) ==
  IF EpHead \in down
  THEN [cache |-> c0, tick |-> Placeholder(0, Absent), path |-> "error", headRead |-> Absent]
  ELSE
    LET safe == Max(0, head - LATEST_BLOCK_SAFETY_BUFFER)
        settle(ce, recent, pick) ==
          IF pick.tick # NoTick
          THEN [cache |-> CacheTicks(ce.cache, recent), tick |-> pick.tick,
                path |-> pick.path, headRead |-> head]
          ELSE [cache |-> CacheTicks(ce.cache, recent), tick |-> Placeholder(safe, ce.val),
                path |-> "placeholder", headRead |-> head]
        collected(ce, recent) ==
          settle(ce, recent,
                 A_pickSafeTick(SortTicksDesc(recent), safe, A_prevNewest(ce.val, down)))
        inEpoch(ce) == collected(ce, A_recentTicks(ce.val, safe, down))
    IN inEpoch(getCurrentEpoch(c0, down))

A_getRecentValidTicks(c0, count, down) ==
  LET answer(ce, got) == [cache |-> CacheTicks(ce.cache, got), ticks |-> SortTicksDesc(got)]
      inEpoch(ce) ==
        answer(ce, IF EpPage(ce.val, 0) \notin down
                   THEN Take(NormalizeAll(SortTicksDesc(FetchPage(ce.val, 0, PageSize, down))),
                             count)
                   ELSE IF ce.val > 0
                        THEN Take(NormalizeAll(SortTicksDesc(FetchPage(ce.val - 1, 0,
                                                                       PageSize, down))),
                                  count)
                        ELSE << >>)
  IN inEpoch(getCurrentEpoch(c0, down))

---------------------------------------------------------------------------
(* getAllTicksFromEpoch (both clients): the paginated listing of an epoch, *)
(* its cache and the observed range of the epoch.                          *)

Infinity == 1000000000
MAX_EMPTY_PAGES == 3
\* getAllTicksFromEpoch(epoch, 1000): two pages of 500 ticks, scaled with the
\* page size
RANGE_PROBE_TICKS == 2 * PageSize

RATE_LIMIT_DELAY == 2000

\* page p of epoch e answers 429 to the first k requests a call makes for it
EpRate(e, p, k) == << "rate", e, p, k >>

\* how many 429 answers a call gets for the page before the page is served
RateLimitedTimes(epoch, page, down) ==
  LET ks == { k \in 1..(2 * MAX_EMPTY_PAGES) : EpRate(epoch, page, k) \in down }
  IN IF ks = {} THEN 0 ELSE CHOOSE k \in ks : \A j \in ks : j <= k

\* the while loop: pages are fetched until a short page, MAX_EMPTY_PAGES
\* consecutive empty pages, an error, or maxTicks ticks.  A 429 answer waits
\* 2000 * (emptyPageCount + 1) ms, counts as an empty page and asks for the
\* same page again, until the count reaches 2 * MAX_EMPTY_PAGES.  limited is
\* the number of 429 answers received for the page, delays the waits so far
\* with the page that was asked for.
RECURSIVE FetchEpochPages(_, _, _, _, _, _, _, _)
FetchEpochPages(epoch, page, emptyPageCount, allTicks, maxTicks, down, limited, delays) ==
  CASE Len(allTicks) >= maxTicks ->
         [ticks |-> allTicks, delays |-> delays, ended |-> "limit"]
    [] Len(allTicks) < maxTicks /\ EpPage(epoch, page) \in down ->
         [ticks |-> allTicks, delays |-> delays, ended |-> "error"]
    [] Len(allTicks) < maxTicks /\ EpPage(epoch, page) \notin down
         /\ limited < RateLimitedTimes(epoch, page, down) ->
         IF emptyPageCount + 1 >= 2 * MAX_EMPTY_PAGES
         THEN [ticks |-> allTicks,
               delays |-> Append(delays, [page |-> page,
                                         ms |-> RATE_LIMIT_DELAY * (emptyPageCount + 1)]),
               ended |-> "rateLimited"]
         ELSE FetchEpochPages(epoch, page, emptyPageCount + 1, allTicks, maxTicks, down,
                              limited + 1,
                              Append(delays, [page |-> page,
                                              ms |-> RATE_LIMIT_DELAY * (emptyPageCount + 1)]))
    [] OTHER ->
         LET onPage(tickList) ==
               CASE Len(tickList) = 0 /\ emptyPageCount + 1 >= MAX_EMPTY_PAGES ->
                      [ticks |-> allTicks, delays |-> delays, ended |-> "emptyPages"]
                 [] Len(tickList) = 0 /\ emptyPageCount + 1 < MAX_EMPTY_PAGES ->
                      FetchEpochPages(epoch, page + 1, emptyPageCount + 1, allTicks,
                                      maxTicks, down, 0, delays)
                 [] Len(tickList) > 0 /\ Len(tickList) < PageSize ->
                      [ticks |-> allTicks \o NormalizeAll(tickList), delays |-> delays,
                       ended |-> "shortPage"]
                 [] OTHER ->
                      FetchEpochPages(epoch, page + 1, 0, allTicks \o NormalizeAll(tickList),
                                      maxTicks, down, 0, delays)
         IN onPage(PageOf(Listing(epoch), page, PageSize))

MinTick_OfFirst(ts) == ts[1].tickNumber
MinTick(ts) == CHOOSE m \in TickNumbers(ts) : \A k \in TickNumbers(ts) : m <= k
MaxTick(ts) == CHOOSE m \in TickNumbers(ts) : \A k \in TickNumbers(ts) : m >= k

\* the part of getAllTicksFromEpoch after the look into the cache: the pages
\* are fetched, every tick is cached, the range of the epoch is written when
\* any tick was found and the sorted ticks are stored as the epoch's listing.
\* Every error of a page request is caught inside the loop: the call returns
\* the list however the loop ended and never throws.
FetchAndStoreEpoch(c, epoch, maxTicks, down) ==
  LET store(allTicks, sorted, c1, loop) ==
        [ cache |-> [ (IF Len(allTicks) > 0
                       THEN [c1 EXCEPT !.epochRanges =
                               Put(@, epoch, [minTickNumber |-> MinTick(allTicks),
                                              maxTickNumber |-> MaxTick(allTicks)])]
                       ELSE c1)
                      EXCEPT !.epochData = Put(@, epoch, sorted) ],
          ticks |-> sorted, delays |-> loop.delays, ended |-> loop.ended,
          threw |-> FALSE ]
      fetched(loop) ==
        store(loop.ticks, SortTicksDesc(loop.ticks), CacheTicks(c, loop.ticks), loop)
  IN fetched(FetchEpochPages(epoch, 0, 0, << >>, maxTicks, down, 0, << >>))

\* the cached listing of an epoch is returned when it is not empty
EpochIsCached(c, epoch) ==
  epoch \in DOMAIN c.epochData /\ Len(c.epochData[epoch]) > 0

getAllTicksFromEpoch(c, epoch, maxTicks, down) ==
  IF EpochIsCached(c, epoch)
  THEN [cache |-> c, ticks |-> c.epochData[epoch]]
  ELSE FetchAndStoreEpoch(c, epoch, maxTicks, down)

---------------------------------------------------------------------------
(* Client B: getLatestTick and getRecentValidTicks.                        *)

B_getLatestTick(c0, down) ==
  IF EpHead \in down
  THEN [cache |-> c0, tick |-> Placeholder(0, Absent), path |-> "error", headRead |-> Absent]
  ELSE
    LET safe == Max(0, head - LATEST_BLOCK_SAFETY_BUFFER)
        fromPrev(ce, prev) ==
          IF Len(prev.ticks) > 0
          THEN [cache |-> prev.cache, tick |-> prev.ticks[1], path |-> "prevEpoch",
                headRead |-> head]
          ELSE [cache |-> prev.cache, tick |-> Placeholder(safe, ce.val),
                path |-> "placeholder", headRead |-> head]
        settle(ce, ep, exact, older) ==
          CASE Len(ep.ticks) = 0 ->
                 [cache |-> ep.cache, tick |-> Placeholder(safe, ce.val),
                  path |-> "placeholder", headRead |-> head]
            [] Len(ep.ticks) > 0 /\ exact # NoTick ->
                 [cache |-> ep.cache, tick |-> exact, path |-> "exact", headRead |-> head]
            [] Len(ep.ticks) > 0 /\ exact = NoTick /\ Len(older) > 0 ->
                 [cache |-> ep.cache, tick |-> older[1], path |-> "older", headRead |-> head]
            [] OTHER ->
                 fromPrev(ce, getAllTicksFromEpoch(ep.cache, ce.val - 1, Infinity, down))
        listed(ce, ep) ==
          settle(ce, ep, FindTick(ep.ticks, safe),
                 SortTicksDesc(TicksBetween(ep.ticks, 0, safe)))
        inEpoch(ce) == listed(ce, getAllTicksFromEpoch(ce.cache, ce.val, Infinity, down))
    IN inEpoch(getCurrentEpoch(c0, down))

\* the loop from the current epoch down to current - 5
RECURSIVE B_recentEpochs(_, _, _, _, _, _)
B_recentEpochs(c, epoch, lowest, validTicks, count, down) ==
  IF epoch < lowest \/ Len(validTicks) >= count
  THEN [cache |-> c, ticks |-> validTicks]
  ELSE LET listed(ep) ==
             B_recentEpochs(ep.cache, epoch - 1, lowest,
                            validTicks \o Take(SortTicksDesc(ep.ticks),
                                               count - Len(validTicks)),
                            count, down)
       IN listed(getAllTicksFromEpoch(c, epoch, RANGE_PROBE_TICKS, down))

EPOCHS_BACK == 5

B_getRecentValidTicks(c0, count, down) ==
  LET answer(r) == [cache |-> r.cache, ticks |-> SortTicksDesc(r.ticks)]
      inEpoch(ce) ==
        answer(B_recentEpochs(ce.cache, ce.val, Max(0, ce.val - EPOCHS_BACK), << >>,
                              count, down))
  IN inEpoch(getCurrentEpoch(c0, down))

getLatestTick(c, down) ==
  IF client = "A" THEN A_getLatestTick(c, down) ELSE B_getLatestTick(c, down)

getRecentValidTicks(c, count, down) ==
  IF client = "A" THEN A_getRecentValidTicks(c, count, down)
  ELSE B_getRecentValidTicks(c, count, down)

---------------------------------------------------------------------------
(* DataTransformer.transformTickToBlock and BlockController.getLatestBlock *)

\* milliseconds to seconds
transformTickToBlock(tick) ==
  [ blockNumber    |-> tick.tickNumber,
    blockTimestamp |-> (IF tick.timestamp = 0 THEN now ELSE tick.timestamp) \div 1000 ]

NoBlock == [none |-> TRUE]

\* the check that the transactions of tick t can be fetched: the old
\* controller calls getTransactionsForTick, the new one the endpoint itself
ProbeTransactions(c, t, down) ==
  IF ctl = "old"
  THEN LET probed(r) ==
             [cache |-> r.cache, threw |-> r.threw,
              okAt |-> IF r.called /\ EpTx(t) \notin down THEN {t} ELSE {},
              failedAt |-> IF r.called /\ EpTx(t) \in down THEN {t} ELSE {}]
       IN probed(getTransactionsForTick(c, t, down))
  ELSE [cache |-> c, threw |-> EpTx(t) \in down,
        okAt |-> IF EpTx(t) \in down THEN {} ELSE {t},
        failedAt |-> IF EpTx(t) \in down THEN {t} ELSE {}]

\* for (const tick of saferTicks): the first tick whose probe does not throw
RECURSIVE TrySaferTicks(_, _, _, _, _, _)
TrySaferTicks(c, saferTicks, i, okAt, failedAt, down) ==
  IF i > Len(saferTicks)
  THEN [cache |-> c, status |-> 500, block |-> NoBlock, okAt |-> okAt,
        failedAt |-> failedAt, tried |-> Len(saferTicks)]
  ELSE LET probed(p) ==
             IF ~p.threw
             THEN [cache |-> p.cache, status |-> 200,
                   block |-> transformTickToBlock(saferTicks[i]),
                   okAt |-> okAt \cup p.okAt, failedAt |-> failedAt \cup p.failedAt,
                   tried |-> i]
             ELSE TrySaferTicks(p.cache, saferTicks, i + 1, okAt \cup p.okAt,
                                failedAt \cup p.failedAt, down)
       IN probed(ProbeTransactions(c, saferTicks[i].tickNumber, down))

\* the answer of GET /latest-block; probedOk / probedFailed are the ticks
\* whose transaction endpoint answered / failed during the request
getLatestBlock(c0, down) ==
  LET fallback(lt, sf, fb) ==
        [cache |-> fb.cache, status |-> fb.status, block |-> fb.block,
         headRead |-> lt.headRead, candidate |-> lt.tick.tickNumber,
         path |-> "fallback", probedOk |-> fb.okAt, probedFailed |-> fb.failedAt,
         fallbacks |-> [i \in 1..Len(sf.ticks) |-> sf.ticks[i].tickNumber],
         tried |-> fb.tried]
      safer(lt, p, sf) ==
        fallback(lt, sf, TrySaferTicks(sf.cache, sf.ticks, 1, p.okAt, p.failedAt, down))
      probed(lt, p) ==
        IF ~p.threw
        THEN [cache |-> p.cache, status |-> 200, block |-> transformTickToBlock(lt.tick),
              headRead |-> lt.headRead, candidate |-> lt.tick.tickNumber, path |-> lt.path,
              probedOk |-> p.okAt, probedFailed |-> p.failedAt,
              fallbacks |-> << >>, tried |-> 0]
        ELSE safer(lt, p, getRecentValidTicks(p.cache, SAFER_TICKS_COUNT, down))
      latest(lt) ==
        IF lt.tick.tickNumber = 0
        THEN [cache |-> lt.cache, status |-> 500, block |-> NoBlock,
              headRead |-> lt.headRead, candidate |-> 0, path |-> lt.path,
              probedOk |-> {}, probedFailed |-> {}, fallbacks |-> << >>, tried |-> 0]
        ELSE probed(lt, ProbeTransactions(lt.cache, lt.tick.tickNumber, down))
  IN latest(getLatestTick(c0, down))

---------------------------------------------------------------------------
(* Client A: getTickByNumber and findNearestTickWithBinarySearch.          *)

BINARY_SEARCH_HIGH_PAGE == 1000
BINARY_SEARCH_MAX_ATTEMPTS == 8
ADJACENT_PAGES == 5

\* the tick of a list nearest to target, the first one on ties
NearestIn(ts, target) ==
  FirstAt(ts, { i \in 1..Len(ts) :
                  \A j \in 1..Len(ts) :
                     Abs(ts[i].tickNumber - target) <= Abs(ts[j].tickNumber - target) })

\* the best match kept across pages: replaced only by a strictly closer tick
BetterMatch_KeepFirst(best, ts, target) ==
  IF best = NoTick THEN NearestIn(ts, target) ELSE best
BetterMatch(best, ts, target) ==
  LET cand == NearestIn(ts, target)
  IN IF best = NoTick THEN cand
     ELSE IF cand # NoTick
             /\ Abs(cand.tickNumber - target) < Abs(best.tickNumber - target)
          THEN cand
          ELSE best

\* the tick of a page that holds the target between its first and last
\* tick: the tick itself, else the nearest one
MatchInPage(ticks, target) ==
  IF FindTick(ticks, target) # NoTick
  THEN normalizeTickData(FindTick(ticks, target))
  ELSE normalizeTickData(NearestIn(ticks, target))

\* one attempt of the search fetches the page in the middle of
\* lowPage .. highPage; a failed request moves to the upper half when
\* lowPage + highPage is odd and to the lower half otherwise
RECURSIVE A_binarySearch(_, _, _, _, _, _, _, _)
A_binarySearch(epoch, target, lowPage, highPage, attempts, bestMatch, seen, down) ==
  IF attempts >= BINARY_SEARCH_MAX_ATTEMPTS \/ lowPage > highPage
  THEN [tick |-> IF bestMatch = NoTick THEN NoTick ELSE normalizeTickData(bestMatch),
        seen |-> seen, attempts |-> attempts, within |-> FALSE,
        lowPage |-> lowPage, highPage |-> highPage]
  ELSE
    LET midPage == (lowPage + highPage) \div 2
        onPage(failed, ticks) ==
          CASE failed /\ (lowPage + highPage) % 2 = 1 ->
                 A_binarySearch(epoch, target, midPage + 1, highPage, attempts + 1,
                                bestMatch, seen, down)
            [] failed /\ (lowPage + highPage) % 2 = 0 ->
                 A_binarySearch(epoch, target, lowPage, midPage - 1, attempts + 1,
                                bestMatch, seen, down)
            [] ~failed /\ Len(ticks) = 0 ->
                 A_binarySearch(epoch, target, lowPage, midPage - 1, attempts + 1,
                                bestMatch, seen, down)
            [] ~failed /\ Len(ticks) > 0
                 /\ MinTick(ticks) <= target /\ target <= MaxTick(ticks) ->
                 [tick |-> MatchInPage(ticks, target),
                  seen |-> seen \cup TickNumbers(ticks), attempts |-> attempts + 1,
                  within |-> TRUE, lowPage |-> lowPage, highPage |-> highPage]
            [] ~failed /\ Len(ticks) > 0 /\ target < MinTick(ticks) ->
                 A_binarySearch(epoch, target, lowPage, midPage - 1, attempts + 1,
                                BetterMatch(bestMatch, ticks, target),
                                seen \cup TickNumbers(ticks), down)
            [] OTHER ->
                 A_binarySearch(epoch, target, midPage + 1, highPage, attempts + 1,
                                BetterMatch(bestMatch, ticks, target),
                                seen \cup TickNumbers(ticks), down)
    IN onPage(EpPage(epoch, midPage) \in down, FetchPage(epoch, midPage, PageSize, down))

findNearestTickWithBinarySearch(epoch, target, down) ==
  A_binarySearch(epoch, target, 0, BINARY_SEARCH_HIGH_PAGE, 0, NoTick, {}, down)

\* the direction of the walk: earlier pages when n is below the ticks of the
\* estimated page, later pages when it is above them
WalkDirection_Reversed(n, ticks) == IF n < MinTick(ticks) THEN 1 ELSE -1
WalkDirection(n, ticks) == IF n < MinTick(ticks) THEN -1 ELSE 1

\* the page asked for at an offset of the walk
WalkPage(est, dir, pageOffset) ==
  IF dir < 0 THEN Max(0, est - pageOffset) ELSE est + pageOffset

\* the walk over the pages next to the estimated page: offsets 1 .. 5 in
\* direction dir (-1: earlier pages, +1: later pages); asked lists the pages
\* requested
RECURSIVE A_walkPages(_, _, _, _, _, _, _, _)
A_walkPages(cur, n, est, dir, pageOffset, seen, asked, down) ==
  IF pageOffset > ADJACENT_PAGES THEN [tick |-> NoTick, seen |-> seen, asked |-> asked]
  ELSE LET onPage(ticks) ==
             IF FindTick(ticks, n) # NoTick
             THEN [tick |-> normalizeTickData(FindTick(ticks, n)),
                   seen |-> seen \cup TickNumbers(ticks),
                   asked |-> Append(asked, WalkPage(est, dir, pageOffset))]
             ELSE A_walkPages(cur, n, est, dir, pageOffset + 1,
                              seen \cup TickNumbers(ticks),
                              Append(asked, WalkPage(est, dir, pageOffset)), down)
       IN onPage(FetchPage(cur, WalkPage(est, dir, pageOffset), PageSize, down))

\* the part of getTickByNumber that works on the current epoch
A_lookupCurrentEpoch(cur, n, est, down) ==
  LET onPage(ticks) ==
        CASE FindTick(ticks, n) # NoTick ->
               [tick |-> normalizeTickData(FindTick(ticks, n)), seen |-> TickNumbers(ticks),
                asked |-> << est >>]
          [] FindTick(ticks, n) = NoTick /\ Len(ticks) > 0
               /\ (n < MinTick(ticks) \/ n > MaxTick(ticks)) ->
               A_walkPages(cur, n, est, WalkDirection(n, ticks), 1,
                           TickNumbers(ticks), << est >>, down)
          [] OTHER -> [tick |-> NoTick, seen |-> TickNumbers(ticks), asked |-> << est >>]
  IN onPage(FetchPage(cur, est, PageSize, down))

\* what the binary search of a previous epoch finds; the search is only
\* started when the estimated page of that epoch holds ticks
A_searchPrevEpoch(prevEpoch, n, ticks, down) ==
  IF Len(ticks) = 0 THEN [tick |-> NoTick, seen |-> {}, attempts |-> 0]
  ELSE findNearestTickWithBinarySearch(prevEpoch, n, down)

\* the loop over the previous epochs current - 1 .. current - 5; an epoch
\* below 0 is skipped; fetches counts the page requests
RECURSIVE A_lookupPrevEpochs(_, _, _, _, _, _, _)
A_lookupPrevEpochs(cur, n, est, epochOffset, seen, fetches, down) ==
  IF epochOffset > EPOCHS_BACK
  THEN [tick |-> NoTick, path |-> "none", seen |-> seen, fetches |-> fetches]
  ELSE
    LET asked(bs) == (IF cur - epochOffset < 0 THEN 0 ELSE 1) + bs.attempts
        onPage(ticks, bs) ==
          CASE FindTick(ticks, n) # NoTick ->
                 [tick |-> normalizeTickData(FindTick(ticks, n)), path |-> "exact",
                  seen |-> seen \cup TickNumbers(ticks), fetches |-> fetches + 1]
            [] FindTick(ticks, n) = NoTick /\ bs.tick # NoTick ->
                 [tick |-> bs.tick, path |-> "nearest",
                  seen |-> seen \cup TickNumbers(ticks) \cup bs.seen,
                  fetches |-> fetches + asked(bs)]
            [] OTHER ->
                 A_lookupPrevEpochs(cur, n, est, epochOffset + 1,
                                    seen \cup TickNumbers(ticks) \cup bs.seen,
                                    fetches + asked(bs), down)
        fetched(ticks) == onPage(ticks, A_searchPrevEpoch(cur - epochOffset, n, ticks, down))
    IN fetched(IF cur - epochOffset < 0 THEN << >>
               ELSE FetchPage(cur - epochOffset, est, PageSize, down))

\* the record found (or made up) for number n, the way it was found and the
\* tick numbers upstream showed during the lookup; pages lists the pages of
\* the current epoch that were asked for and fetches counts every upstream
\* request of the call
A_getTickByNumber(c0, n, down) ==
  IF n \in DOMAIN c0.ticks
  THEN [cache |-> c0, tick |-> c0.ticks[n], path |-> "cached", seen |-> {},
        pages |-> << >>, fetches |-> 0,
        currentEpoch |-> Absent]
  ELSE
    LET calls(ce, here) == (IF ce.called THEN 1 ELSE 0) + Len(here.asked)
        older(ce, here, prev) ==
          IF prev.tick # NoTick
          THEN [cache |-> [ce.cache EXCEPT !.ticks = Put(@, n, prev.tick)],
                tick |-> prev.tick, path |-> prev.path, seen |-> prev.seen,
                pages |-> here.asked, fetches |-> prev.fetches,
                currentEpoch |-> ce.val]
          ELSE [cache |-> ce.cache, tick |-> Placeholder(n, Absent),
                path |-> "placeholder", seen |-> prev.seen,
                pages |-> here.asked, fetches |-> prev.fetches,
                currentEpoch |-> ce.val]
        current(ce, here) ==
          IF here.tick # NoTick
          THEN [cache |-> [ce.cache EXCEPT !.ticks = Put(@, n, here.tick)],
                tick |-> here.tick, path |-> "exact", seen |-> here.seen,
                pages |-> here.asked, fetches |-> calls(ce, here),
                currentEpoch |-> ce.val]
          ELSE older(ce, here,
                     A_lookupPrevEpochs(ce.val, n, n \div PageSize, 1, here.seen,
                                        calls(ce, here), down))
        inEpoch(ce) == current(ce, A_lookupCurrentEpoch(ce.val, n, n \div PageSize, down))
    IN inEpoch(getCurrentEpoch(c0, down))

---------------------------------------------------------------------------
(* The range collector getTicksInBlockRange of both clients.               *)

MAX_RANGE_PAGES == 10
MIDDLE_LOOKUP_MAX_RANGE == 1000
B_DEFAULT_MAX_RESULTS == 100

\* the (epoch, page) requests of client A in the order it issues them: the
\* targeted pages of the current epoch, then of the five previous epochs
A_rangeRequests(cur, fromBlock, toBlock) ==
  LET fromBlockPage == fromBlock \div PageSize
      toBlockPage   == toBlock \div PageSize
      pagesToCheck  == Min(MAX_RANGE_PAGES, toBlockPage - fromBlockPage + 1)
      lastPage      == Min(toBlockPage, fromBlockPage + pagesToCheck - 1)
      nPages        == lastPage - fromBlockPage + 1
      epochs        == SelectSeq([ i \in 1..(EPOCHS_BACK + 1) |-> cur - (i - 1) ],
                                 LAMBDA e : e >= 0)
  IN [ k \in 1..(Len(epochs) * nPages) |->
         [ epoch |-> epochs[((k - 1) \div nPages) + 1],
           page  |-> fromBlockPage + ((k - 1) % nPages) ] ]

\* one request of the loop: the ticks of the page that lie in the range, as
\* many as the limit still admits
A_collectPage(c, req, validTicks, fromBlock, toBlock, actualMaxResults, down) ==
  LET collected(taken) == [cache |-> CacheTicks(c, taken), ticks |-> validTicks \o taken,
                           searched |-> {req.epoch},
                           asked |-> { << req.epoch, req.page >> }]
  IN collected(Take(NormalizeAll(TicksBetween(FetchPage(req.epoch, req.page, PageSize, down),
                                              fromBlock, toBlock)),
                    actualMaxResults - Len(validTicks)))

\* the loop over the requests reqs[lo .. hi], in order, until the limit is
\* reached; it is written as the visit of the first half followed by the
\* visit of the second half
RECURSIVE A_collectPages(_, _, _, _, _, _, _, _, _)
A_collectPages(c, reqs, lo, hi, validTicks, fromBlock, toBlock, actualMaxResults, down) ==
  IF lo > hi \/ Len(validTicks) >= actualMaxResults
  THEN [cache |-> c, ticks |-> validTicks, searched |-> {}, asked |-> {}]
  ELSE IF lo = hi
  THEN A_collectPage(c, reqs[lo], validTicks, fromBlock, toBlock, actualMaxResults, down)
  ELSE LET after(first, second) ==
             [cache |-> second.cache, ticks |-> second.ticks,
              searched |-> first.searched \cup second.searched,
              asked |-> first.asked \cup second.asked]
           rest(first) ==
             after(first,
                   A_collectPages(first.cache, reqs, ((lo + hi) \div 2) + 1, hi, first.ticks,
                                  fromBlock, toBlock, actualMaxResults, down))
       IN rest(A_collectPages(c, reqs, lo, (lo + hi) \div 2, validTicks,
                              fromBlock, toBlock, actualMaxResults, down))

A_getTicksInBlockRange(c0, fromBlock, toBlock, maxResults, down) ==
  LET middle(ce, got, mid) ==
        [cache |-> mid.cache, ticks |-> << mid.tick >>, path |-> "middle",
         searched |-> got.searched, asked |-> got.asked, currentEpoch |-> ce.val]
      collected(ce, got) ==
        CASE Len(got.ticks) > 0 ->
               [cache |-> got.cache, ticks |-> SortTicksAsc(got.ticks), path |-> "pages",
                searched |-> got.searched, asked |-> got.asked, currentEpoch |-> ce.val]
          [] Len(got.ticks) = 0 /\ toBlock - fromBlock + 1 <= MIDDLE_LOOKUP_MAX_RANGE ->
               middle(ce, got,
                      A_getTickByNumber(got.cache, (fromBlock + toBlock) \div 2, down))
          [] OTHER -> [cache |-> got.cache, ticks |-> << >>, path |-> "empty",
                       searched |-> got.searched, asked |-> got.asked,
                       currentEpoch |-> ce.val]
      requests(ce, reqs) ==
        collected(ce, A_collectPages(ce.cache, reqs, 1, Len(reqs), << >>, fromBlock, toBlock,
                                 Min(maxResults, toBlock - fromBlock + 1), down))
      inEpoch(ce) == requests(ce, A_rangeRequests(ce.val, fromBlock, toBlock))
      \* Infinity - Infinity is NaN: rangeSize, actualMaxResults and pagesToCheck
      \* are NaN, every comparison with them is false and no page is asked for
      noRange(ce) == [cache |-> ce.cache, ticks |-> << >>, path |-> "empty",
                      searched |-> {}, asked |-> {}, currentEpoch |-> ce.val]
  IN IF fromBlock = Infinity /\ toBlock = Infinity
     THEN noRange(getCurrentEpoch(c0, down))
     ELSE inEpoch(getCurrentEpoch(c0, down))

\* the loop of client B from the current epoch down to current - 5; it
\* stops at the first epoch that has a tick in range
RECURSIVE B_collectEpochs(_, _, _, _, _, _, _)
B_collectEpochs(c, epoch, lowest, fromBlock, toBlock, maxResults, down) ==
  IF epoch < lowest THEN [cache |-> c, ticks |-> << >>, searched |-> {}]
  ELSE LET also(older) ==
             [cache |-> older.cache, ticks |-> older.ticks,
              searched |-> {epoch} \cup older.searched]
           listed(ep, ticksInRange) ==
             IF Len(ticksInRange) > 0
             THEN [cache |-> ep.cache, ticks |-> Take(ticksInRange, maxResults),
                   searched |-> {epoch}]
             ELSE also(B_collectEpochs(ep.cache, epoch - 1, lowest, fromBlock, toBlock,
                                       maxResults, down))
           fetched(ep) == listed(ep, TicksBetween(ep.ticks, fromBlock, toBlock))
       IN fetched(getAllTicksFromEpoch(c, epoch, Infinity, down))

\* the definition of getTicksInBlockRange that client B ends up with (the
\* later of the two methods of that name in the class); when no epoch has a
\* tick in range, or the status request fails, it returns the most recent
\* valid ticks
B_getTicksInBlockRange(c0, fromBlock, toBlock, maxResults, down) ==
  LET instead(got, recent) ==
        [cache |-> recent.cache, ticks |-> recent.ticks, path |-> "recent",
         searched |-> got.searched]
      collected(got) ==
        IF Len(got.ticks) > 0
        THEN [cache |-> got.cache, ticks |-> got.ticks, path |-> "epochs",
              searched |-> got.searched]
        ELSE instead(got, B_getRecentValidTicks(got.cache, maxResults, down))
  IN collected(IF EpStatus \in down THEN [cache |-> c0, ticks |-> << >>, searched |-> {}]
               ELSE B_collectEpochs(c0, StatusEpoch, Max(0, StatusEpoch - EPOCHS_BACK),
                                    fromBlock, toBlock, maxResults, down))

---------------------------------------------------------------------------
(* DataTransformer.transformTransactionsToEvents and                       *)
(* EventsController.getEvents.                                             *)

\* _mapEventType: the fixed type table; null for a type it does not hold
mapEventType(qubicEventType) ==
  CASE qubicEventType \in {"PAIR_CREATED", "PAIR_CREATE", "CREATE_PAIR"} -> "creation"
    [] qubicEventType \in {"SWAP", "EXCHANGE"} -> "swap"
    [] qubicEventType \in {"ADD_LIQUIDITY", "JOIN_POOL", "PROVIDE_LIQUIDITY"} -> "join"
    [] qubicEventType \in {"REMOVE_LIQUIDITY", "EXIT_POOL", "WITHDRAW_LIQUIDITY"} -> "exit"
    [] OTHER -> NoEventType

\* the event of one transaction
EventOf(txn, tickData) ==
  [ block      |-> transformTickToBlock(tickData),
    txnId      |-> txn.id,
    txnIndex   |-> 0,
    eventIndex |-> IF txn.eventIndex = Absent THEN 0 ELSE txn.eventIndex,
    eventType  |-> mapEventType(txn.type) ]

\* transactions without a type or with a type outside the table are skipped
Recognised(txn) == txn.type # NoType /\ mapEventType(txn.type) # NoEventType

transformTransactionsToEvents(transactions, tickData) ==
  LET kept == SelectSeq(transactions, Recognised)
  IN [ i \in 1..Len(kept) |-> EventOf(kept[i], tickData) ]

SortEvents_ByBlockOnly(evs) ==
  StableSort(evs, [ i \in 1..Len(evs) |-> evs[i].block.blockNumber ],
                  [ i \in 1..Len(evs) |-> 0 ])
\* allEvents.sort by block number, then by event index
SortEvents(evs) ==
  StableSort(evs, [ i \in 1..Len(evs) |-> evs[i].block.blockNumber ],
                  [ i \in 1..Len(evs) |-> evs[i].eventIndex ])

\* the new controller caps the range at 10000 blocks and the ticks at 1000,
\* the old one caps the range at 100000 blocks and passes no tick limit
MAX_BLOCK_RANGE == IF ctl = "new" THEN 10000 ELSE 100000
NEW_MAX_TICKS == 1000

getTicksInBlockRange(c, fromBlock, toBlock, down) ==
  IF client = "A"
  THEN A_getTicksInBlockRange(c, fromBlock, toBlock,
                              IF ctl = "new" THEN NEW_MAX_TICKS ELSE Infinity, down)
  ELSE B_getTicksInBlockRange(c, fromBlock, toBlock,
                              IF ctl = "new" THEN NEW_MAX_TICKS ELSE B_DEFAULT_MAX_RESULTS,
                              down)

\* for (const tick of ticks): the events of every tick whose transactions
\* can be fetched
RECURSIVE ExtractEvents(_, _, _, _, _)
ExtractEvents(c, ticks, i, allEvents, down) ==
  IF i > Len(ticks) THEN [cache |-> c, events |-> allEvents]
  ELSE LET fetched(r) ==
             ExtractEvents(r.cache, ticks, i + 1,
                           IF r.threw THEN allEvents
                           ELSE allEvents \o transformTransactionsToEvents(r.txs, ticks[i]),
                           down)
       IN fetched(getTransactionsForTick(c, ticks[i].tickNumber, down))

\* A query parameter is the sequence of its characters; a parameter that is
\* missing and one that is empty are both falsy and are both << >>.
\* A Number is a record: NaN, or a value that is an integer, Infinity or
\* -Infinity.
NaN == [nan |-> TRUE, val |-> 0]
Num(v) == [nan |-> FALSE, val |-> v]

Digits == << "0", "1", "2", "3", "4", "5", "6", "7", "8", "9" >>
IsDigit(ch) == \E d \in 1..10 : Digits[d] = ch
DigitValue(ch) == (CHOOSE d \in 1..10 : Digits[d] = ch) - 1

\* the decimal digits of a number that is not negative, as a client writes them
RECURSIVE Decimal(_)
Decimal(n) ==
  IF n < 10 THEN << Digits[n + 1] >>
  ELSE Append(Decimal(n \div 10), Digits[(n % 10) + 1])

RECURSIVE StripLeft(_)
StripLeft(str) ==
  IF str # << >> /\ Head(str) = " " THEN StripLeft(Tail(str)) ELSE str

\* the value of the leading digits; everything above NumberMaxValue counts alike
RECURSIVE DigitsValue(_, _)
DigitsValue(str, acc) ==
  IF str = << >> \/ ~IsDigit(Head(str)) THEN acc
  ELSE DigitsValue(Tail(str), Min(acc * 10 + DigitValue(Head(str)), NumberMaxValue + 1))

\* parseInt(str, 10): leading blanks are skipped, a sign is read, then the
\* longest run of digits; what follows the digits is ignored; without a digit
\* the result is NaN, and a value beyond the largest Number is Infinity
parseInt(str) ==
  LET s == StripLeft(str)
      signed == s # << >> /\ Head(s) \in { "-", "+" }
      negative == s # << >> /\ Head(s) = "-"
      body == IF signed THEN Tail(s) ELSE s
      magnitude == DigitsValue(body, 0)
  IN IF body = << >> \/ ~IsDigit(Head(body)) THEN NaN
     ELSE IF magnitude > NumberMaxValue
          THEN Num(IF negative THEN 0 - Infinity ELSE Infinity)
          ELSE Num(IF negative THEN 0 - magnitude ELSE magnitude)

\* toBlockInt - fromBlockInt + 1 of two Numbers that are not NaN:
\* Infinity - Infinity is NaN
RequestedRange(fromBlockInt, toBlockInt) ==
  CASE Abs(fromBlockInt.val) = Infinity /\ toBlockInt.val = fromBlockInt.val -> NaN
    [] Abs(fromBlockInt.val) = Infinity /\ toBlockInt.val # fromBlockInt.val ->
         Num(0 - fromBlockInt.val)
    [] Abs(fromBlockInt.val) # Infinity /\ Abs(toBlockInt.val) = Infinity ->
         Num(toBlockInt.val)
    [] OTHER -> Num(toBlockInt.val - fromBlockInt.val + 1)

\* the checks of the controller, in their order; a comparison with NaN is false
RangeIsRejected(fromBlock, toBlock) ==
  LET fromBlockInt == parseInt(fromBlock)
      toBlockInt == parseInt(toBlock)
      requestedRange == RequestedRange(fromBlockInt, toBlockInt)
  IN \/ fromBlock = << >> \/ toBlock = << >>
     \/ fromBlockInt.nan \/ toBlockInt.nan
     \/ fromBlockInt.val < 0 \/ toBlockInt.val < 0
     \/ fromBlockInt.val > toBlockInt.val
     \/ (~requestedRange.nan /\ requestedRange.val > MAX_BLOCK_RANGE)

\* GET /events?fromBlock&toBlock
getEvents(c0, fromBlock, toBlock, down) ==
  IF RangeIsRejected(fromBlock, toBlock)
  THEN [cache |-> c0, status |-> 400, events |-> << >>, extracted |-> << >>,
        ticks |-> << >>, path |-> "rejected", searched |-> {},
        invoked |-> FALSE, from |-> NaN, to |-> NaN]
  ELSE LET answer(tr, ex) ==
             [cache |-> ex.cache, status |-> 200, events |-> SortEvents(ex.events),
              extracted |-> ex.events,
              ticks |-> [ i \in 1..Len(tr.ticks) |-> tr.ticks[i].tickNumber ],
              path |-> tr.path, searched |-> tr.searched,
              invoked |-> TRUE, from |-> parseInt(fromBlock), to |-> parseInt(toBlock)]
           inRange(tr) == answer(tr, ExtractEvents(tr.cache, tr.ticks, 1, << >>, down))
       IN inRange(getTicksInBlockRange(c0, parseInt(fromBlock).val,
                                       parseInt(toBlock).val, down))

---------------------------------------------------------------------------
(* Client B: findEpochForTick and getTickByNumber; BlockController.getBlock *)

MAX_EPOCHS_TO_CHECK == 153

\* the members of a set of numbers, greatest first
SetToSeqDesc(S) ==
  IF S = {} THEN << >>
  ELSE LET between(hi, lo) ==
             SelectSeq([ i \in 1..(hi - lo + 1) |-> hi - i + 1 ], LAMBDA e : e \in S)
       IN between(CHOOSE x \in S : \A y \in S : y <= x,
                  CHOOSE x \in S : \A y \in S : x <= y)

\* current - d, current + d for d = 0 .. max(153, current + 1), until d
\* exceeds both the current epoch and 152; negative epochs are left out
LastEpochDiff_OneMore(currentEpoch) ==
  Max(MAX_EPOCHS_TO_CHECK, currentEpoch + 1) + 1
LastEpochDiff(currentEpoch) ==
  Min(Max(MAX_EPOCHS_TO_CHECK, currentEpoch + 1),
      Max(currentEpoch, MAX_EPOCHS_TO_CHECK - 1) + 1)

B_epochsToCheck(currentEpoch) ==
  LET lastDiff == LastEpochDiff(currentEpoch)
      pair(d) == << currentEpoch - d, currentEpoch + d >>
      all == [ k \in 1..(2 * (lastDiff + 1)) |-> pair((k - 1) \div 2)[((k - 1) % 2) + 1] ]
  IN SelectSeq(all, LAMBDA e : e >= 0)

InEpochRange_Exclusive(c, e, n) ==
  /\ e \in DOMAIN c.epochRanges
  /\ n > c.epochRanges[e].minTickNumber
  /\ n < c.epochRanges[e].maxTickNumber
InEpochRange(c, e, n) ==
  /\ e \in DOMAIN c.epochRanges
  /\ n >= c.epochRanges[e].minTickNumber
  /\ n <= c.epochRanges[e].maxTickNumber

\* one step of the loops over epochs: an epoch without a known range has
\* its ticks fetched (up to 1000).  An epoch with a known range was rejected
\* when that range was compared with n before, so looking at it again
\* changes nothing.  probed lists the epoch when pages were asked for.
B_probeEpoch(c, n, e, down) ==
  IF e \in DOMAIN c.epochRanges
  THEN [cache |-> c, found |-> InEpochRange(c, e, n), epoch |-> e, probed |-> << >>]
  ELSE LET fetched(r) ==
             [cache |-> r.cache,
              found |-> Len(r.ticks) > 0 /\ InEpochRange(r.cache, e, n), epoch |-> e,
              probed |-> IF EpochIsCached(c, e) THEN << >> ELSE << e >>]
       IN fetched(getAllTicksFromEpoch(c, e, RANGE_PROBE_TICKS, down))

\* the loop over epochs[lo .. hi], in order, up to the first epoch whose
\* range holds n; it is written as the visit of the first half followed by
\* the visit of the second half
RECURSIVE B_probeEpochs(_, _, _, _, _, _)
B_probeEpochs(c, n, epochs, lo, hi, down) ==
  CASE lo > hi -> [cache |-> c, found |-> FALSE, epoch |-> Absent, probed |-> << >>]
    [] lo = hi -> B_probeEpoch(c, n, epochs[lo], down)
    [] OTHER ->
         LET after(first, second) ==
               [cache |-> second.cache, found |-> second.found, epoch |-> second.epoch,
                probed |-> first.probed \o second.probed]
             rest(first) ==
               IF first.found THEN first
               ELSE after(first, B_probeEpochs(first.cache, n, epochs,
                                               ((lo + hi) \div 2) + 1, hi, down))
         IN rest(B_probeEpochs(c, n, epochs, lo, (lo + hi) \div 2, down))

\* recent is the outcome of the loop over the epochs of epochData, scan that
\* of the loop over the epochs around the current one
findEpochForTick(c0, n, down) ==
  LET known == { e \in DOMAIN c0.epochRanges : InEpochRange(c0, e, n) }
      scanned(ce, recent, scan) ==
        [cache |-> scan.cache, epoch |-> IF scan.found THEN scan.epoch ELSE ce.val,
         found |-> scan.found, currentEpoch |-> ce.val,
         recent |-> recent.probed, probed |-> scan.probed]
      toScan(ce, recent, toCheck) ==
        scanned(ce, recent, B_probeEpochs(recent.cache, n, toCheck, 1, Len(toCheck), down))
      accessed(ce, recent) ==
        IF recent.found
        THEN [cache |-> recent.cache, epoch |-> recent.epoch, found |-> TRUE,
              currentEpoch |-> ce.val, recent |-> recent.probed, probed |-> << >>]
        ELSE toScan(ce, recent, B_epochsToCheck(ce.val))
      toProbe(ce, epochs) ==
        accessed(ce, B_probeEpochs(ce.cache, n, epochs, 1, Len(epochs), down))
      inEpoch(ce) == toProbe(ce, SetToSeqDesc(DOMAIN c0.epochData))
  IN IF known # {}
     THEN [cache |-> c0, epoch |-> CHOOSE e \in known : \A f \in known : e <= f,
           found |-> TRUE, currentEpoch |-> Absent, recent |-> << >>, probed |-> << >>]
     ELSE inEpoch(getCurrentEpoch(c0, down))

\* the epochs the earlier of the two definitions of getTicksInBlockRange of
\* client B goes through: the epochs whose cached range overlaps the range
\* asked for, else the epochs from the one found for fromBlock to the one
\* found for toBlock.  findEpochForTick does not throw, so the third choice
\* of that method (every epoch from 0 to the current one) is never taken.
B_epochsToSearch(c0, fromBlock, toBlock, down) ==
  LET overlapping ==
        { e \in DOMAIN c0.epochRanges :
            /\ c0.epochRanges[e].minTickNumber <= toBlock
            /\ c0.epochRanges[e].maxTickNumber >= fromBlock }
      between(startEpoch, endEpoch) ==
        [cache |-> endEpoch.cache, epochFound |-> "resolved",
         epochs |-> Min(startEpoch.epoch, endEpoch.epoch)
                      .. Max(startEpoch.epoch, endEpoch.epoch),
         startEpoch |-> startEpoch.epoch, endEpoch |-> endEpoch.epoch]
      resolved(startEpoch) ==
        between(startEpoch, findEpochForTick(startEpoch.cache, toBlock, down))
  IN IF overlapping # {}
     THEN [cache |-> c0, epochFound |-> "cached", epochs |-> overlapping,
           startEpoch |-> Absent, endEpoch |-> Absent]
     ELSE resolved(findEpochForTick(c0, fromBlock, down))

\* the tick for n in the ticks of one epoch: the tick itself, else the
\* nearest one when n lies between the first and the last tick of the epoch
B_matchInEpoch(ticks, n) ==
  IF Len(ticks) = 0 THEN NoTick
  ELSE IF FindTick(ticks, n) # NoTick THEN FindTick(ticks, n)
  ELSE IF n >= MinTick(ticks) /\ n <= MaxTick(ticks) THEN NearestIn(ticks, n)
  ELSE NoTick

\* every tick number the client holds from an epoch listing
B_observed(c) == UNION { TickNumbers(c.epochData[e]) : e \in DOMAIN c.epochData }

\* the ticks of epoch e, none for an epoch below 0
B_ticksOfEpoch(c, e, down) ==
  IF e < 0 THEN [cache |-> c, ticks |-> << >>]
  ELSE getAllTicksFromEpoch(c, e, Infinity, down)

\* the epoch findEpochForTick names is searched first, then the epoch
\* before it, then the epoch after it
B_getTickByNumber(c0, n, down) ==
  IF n \in DOMAIN c0.ticks
  THEN [cache |-> c0, tick |-> c0.ticks[n], path |-> "cached", seen |-> B_observed(c0)]
  ELSE
    LET matched(c, t) ==
          [ cache |-> [c EXCEPT !.ticks = Put(@, n, t)], tick |-> t,
            path |-> IF t.tickNumber = n THEN "exact" ELSE "nearest",
            seen |-> B_observed(c) ]
        inAbove(above, m) ==
          IF m # NoTick THEN matched(above.cache, m)
          ELSE [cache |-> above.cache, tick |-> Placeholder(n, Absent),
                path |-> "placeholder", seen |-> B_observed(above.cache)]
        after(above) == inAbove(above, B_matchInEpoch(above.ticks, n))
        inBelow(fe, below, m) ==
          IF m # NoTick THEN matched(below.cache, m)
          ELSE after(getAllTicksFromEpoch(below.cache, fe.epoch + 1, Infinity, down))
        before(fe, below) == inBelow(fe, below, B_matchInEpoch(below.ticks, n))
        inMain(fe, main, m) ==
          IF m # NoTick THEN matched(main.cache, m)
          ELSE before(fe, B_ticksOfEpoch(main.cache, fe.epoch - 1, down))
        named(fe, main) == inMain(fe, main, B_matchInEpoch(main.ticks, n))
        inEpoch(fe) == named(fe, getAllTicksFromEpoch(fe.cache, fe.epoch, Infinity, down))
    IN inEpoch(findEpochForTick(c0, n, down))

getTickByNumber(c, n, down) ==
  IF client = "A" THEN A_getTickByNumber(c, n, down) ELSE B_getTickByNumber(c, n, down)

\* [...ticksInEpoch].sort((a, b) => b.timestamp - a.timestamp)
SortByTimestampDesc(ts) ==
  StableSort(ts, [ i \in 1..Len(ts) |-> -ts[i].timestamp ], Zeros(ts))

\* the first tick of the sorted list with (tick.timestamp || 0) <= timestamp
NewestAtOrBefore(sorted, timestamp) ==
  FirstAt(sorted, { i \in 1..Len(sorted) : sorted[i].timestamp <= timestamp })

TIMESTAMP_EPOCHS_BACK == 5

\* if (currentEpoch - epoch >= 5) break, tested after the epoch was searched
StopsScanning_OneLater(currentEpoch, epoch) ==
  currentEpoch - epoch > TIMESTAMP_EPOCHS_BACK
StopsScanning(currentEpoch, epoch) ==
  currentEpoch - epoch >= TIMESTAMP_EPOCHS_BACK

\* the loop of getTickByTimestamp over the epochs currentEpoch, currentEpoch - 1, ...
\* scanned lists the epochs whose listing was asked for, in that order
RECURSIVE ScanEpochsByTimestamp(_, _, _, _, _, _)
ScanEpochsByTimestamp(c, currentEpoch, epoch, timestamp, scanned, down) ==
  IF epoch < 0 THEN [cache |-> c, tick |-> NoTick, scanned |-> scanned]
  ELSE LET decide(got, hit) ==
             CASE hit # NoTick ->
                    [cache |-> got.cache, tick |-> hit, scanned |-> Append(scanned, epoch)]
               [] hit = NoTick /\ StopsScanning(currentEpoch, epoch) ->
                    [cache |-> got.cache, tick |-> NoTick,
                     scanned |-> Append(scanned, epoch)]
               [] OTHER ->
                    ScanEpochsByTimestamp(got.cache, currentEpoch, epoch - 1, timestamp,
                                          Append(scanned, epoch), down)
           onEpoch(got) ==
             decide(got, NewestAtOrBefore(SortByTimestampDesc(got.ticks), timestamp))
       IN onEpoch(getAllTicksFromEpoch(c, epoch, Infinity, down))

\* getTickByTimestamp, the same in both clients: the newest tick at or before
\* the timestamp in the first epoch that has one, else getLatestTick()
getTickByTimestamp(c0, timestamp, down) ==
  LET latest(sc, ce, lt) ==
        [cache |-> lt.cache, tick |-> lt.tick, path |-> "latest", scanned |-> sc.scanned,
         currentEpoch |-> ce.val, latestPath |-> lt.path]
      done(sc, ce) ==
        IF sc.tick # NoTick
        THEN [cache |-> sc.cache, tick |-> sc.tick, path |-> "matched",
              scanned |-> sc.scanned, currentEpoch |-> ce.val, latestPath |-> "none"]
        ELSE latest(sc, ce, getLatestTick(sc.cache, down))
      start(ce) ==
        done(ScanEpochsByTimestamp(ce.cache, ce.val, ce.val, timestamp, << >>, down), ce)
  IN start(getCurrentEpoch(c0, down))

NEARBY_SEARCH_RANGE == 5
NEARBY_MAX_RESULTS == 10

\* a query parameter is Absent when the request does not carry it
Supplied(param) == param # Absent

\* which lookup getBlock runs: none when neither parameter is supplied, the
\* lookup by number whenever number is supplied, else the one by timestamp
LookupOf_TimestampFirst(number, timestamp) ==
  CASE ~Supplied(number) /\ ~Supplied(timestamp) -> "none"
    [] Supplied(timestamp) -> "timestamp"
    [] OTHER -> "number"
LookupOf(number, timestamp) ==
  CASE ~Supplied(number) /\ ~Supplied(timestamp) -> "none"
    [] Supplied(number) -> "number"
    [] OTHER -> "timestamp"

NoScan == [scanned |-> << >>, currentEpoch |-> Absent, latestPath |-> "none"]

\* the answer of getBlock for the tick a lookup returned
BlockAnswer(c, by, lookedUp, tick, path, seen, scan) ==
  IF tick.isEmpty
  THEN [cache |-> c, status |-> 404, by |-> by, tick |-> lookedUp, answer |-> tick,
        block |-> NoBlock, path |-> path, seen |-> seen, scan |-> scan]
  ELSE [cache |-> c, status |-> 200, by |-> by, tick |-> lookedUp, answer |-> tick,
        block |-> transformTickToBlock(tick), path |-> path, seen |-> seen,
        scan |-> scan]

BlockRejected(c, by) ==
  [cache |-> c, status |-> 400, by |-> by, tick |-> NoTick, answer |-> NoTick,
   block |-> NoBlock, path |-> "rejected", seen |-> {}, scan |-> NoScan]

\* GET /block?number=n: a tick marked empty is replaced by the nearest tick
\* of [n - 5, n + 5] when the range collector returns any; a tick that is
\* still empty is answered 404
getBlockByNumber(c0, number, down) ==
  LET instead(lk, nearby) ==
        BlockAnswer(nearby.cache, "number", lk.tick,
                    IF Len(nearby.ticks) > 0 THEN NearestIn(nearby.ticks, number)
                    ELSE lk.tick,
                    lk.path, lk.seen \cup TickNumbers(nearby.ticks), NoScan)
      found(lk) ==
        IF lk.tick.isEmpty
        THEN instead(lk, IF client = "A"
                         THEN A_getTicksInBlockRange(lk.cache,
                                                     Max(0, number - NEARBY_SEARCH_RANGE),
                                                     number + NEARBY_SEARCH_RANGE,
                                                     NEARBY_MAX_RESULTS, down)
                         ELSE B_getTicksInBlockRange(lk.cache,
                                                     Max(0, number - NEARBY_SEARCH_RANGE),
                                                     number + NEARBY_SEARCH_RANGE,
                                                     NEARBY_MAX_RESULTS, down))
        ELSE BlockAnswer(lk.cache, "number", lk.tick, lk.tick, lk.path, lk.seen, NoScan)
  IN found(getTickByNumber(c0, number, down))

\* GET /block?timestamp=t
getBlockByTimestamp(c0, timestamp, down) ==
  LET found(lk) ==
        BlockAnswer(lk.cache, "timestamp", lk.tick, lk.tick, lk.path, {},
                    [scanned |-> lk.scanned, currentEpoch |-> lk.currentEpoch,
                     latestPath |-> lk.latestPath])
  IN found(getTickByTimestamp(c0, timestamp, down))

\* BlockController.getBlock.  A supplied parameter that is below zero is
\* rejected (the parameters are written as integers, so parseInt never
\* yields NaN here).
getBlock(c0, number, timestamp, down) ==
  LET by == LookupOf(number, timestamp)
  IN CASE by = "none" -> BlockRejected(c0, by)
       [] by = "number" /\ number < 0 -> BlockRejected(c0, by)
       [] by = "number" /\ number >= 0 -> getBlockByNumber(c0, number, down)
       [] by = "timestamp" /\ timestamp < 0 -> BlockRejected(c0, by)
       [] OTHER -> getBlockByTimestamp(c0, timestamp, down)

---------------------------------------------------------------------------
(* State machine.                                                          *)

Idle == [op |-> "none", status |-> 0]

\* no paging loop is being followed
NotPaging ==
  [running |-> FALSE, ended |-> "none", page |-> 0, emptyPageCount |-> 0, collected |-> 0,
   maxTicks |-> 0, nonEmptyLeft |-> 0, emptyRun |-> 0, limitedRun |-> 0, noData |-> 0,
   requests |-> 0, dataPages |-> 0]

Init ==
  /\ world \in RequestWorlds
  /\ head = MinHead
  /\ now = ClockStart
  /\ client \in {"A", "B"}
  /\ ctl \in {"old", "new"}
  /\ cache = EmptyCache
  /\ last = Idle
  /\ served = 0
  /\ inflight = {}
  /\ requestCounts = << >>
  /\ paging = NotPaging

\* upstream produces a new head tick
AdvanceHead ==
  /\ head < MaxHead
  /\ head' = head + 1
  /\ UNCHANGED <<paging, requestCounts, world, now, client, ctl, cache, last, served, inflight>>

\* time passes
ClockTick ==
  /\ now < ClockStart + MaxClockSteps * ClockStep
  /\ now' = now + ClockStep
  /\ UNCHANGED <<paging, requestCounts, world, head, client, ctl, cache, last, served, inflight>>

\* GET /latest-block
LatestBlockRequest ==
  \E down \in Outages :
    \E r \in { getLatestBlock(cache, down) } :
       /\ served < MaxRequests
       /\ served' = served + 1
       /\ cache' = r.cache
       /\ last' = [op |-> "latest-block", status |-> r.status, block |-> r.block,
                   headRead |-> r.headRead, candidate |-> r.candidate, path |-> r.path,
                   probedOk |-> r.probedOk, probedFailed |-> r.probedFailed,
                   fallbacks |-> r.fallbacks, tried |-> r.tried]
       /\ UNCHANGED <<paging, requestCounts, world, head, now, client, ctl, inflight>>

NextLatest == AdvanceHead \/ ClockTick \/ LatestBlockRequest

SpecLatest == Init /\ [][NextLatest]_vars

\* the ranges a client asks for
Ranges ==
  IF world = 3 THEN { <<1000, 1005>>, <<1004, 1004>>, <<1005, 1000>> }
  ELSE { <<4, 4>>, <<3, 5>>, <<2, 4>>, <<12, 13>>, <<1, 6>>, <<20, 20>> }

\* the outages an /events request may meet
EventOutages ==
  { {}, {EpStatus}, {EpPage(StatusEpoch, 1)}, {EpTx(4)}, {EpTx(5)} }

\* GET /events
EventsRequest ==
  \E rg \in Ranges, down \in EventOutages :
    \E r \in { getEvents(cache, Decimal(rg[1]), Decimal(rg[2]), down) } :
       /\ served < MaxRequests
       /\ served' = served + 1
       /\ cache' = r.cache
       /\ last' = [op |-> "events", status |-> r.status, fromBlock |-> rg[1],
                   toBlock |-> rg[2], events |-> r.events,
                   extracted |-> r.extracted, ticks |-> r.ticks,
                   path |-> r.path, allUp |-> down = {}, down |-> down,
                   searched |-> r.searched]
       /\ UNCHANGED <<paging, requestCounts, world, head, now, client, ctl, inflight>>

NextEvents == EventsRequest

SpecEvents == Init /\ [][NextEvents]_vars

\* the block numbers a client asks for
BlockNumbers ==
  CASE world = 1 -> { 4, 11 }
    [] world = 2 -> { 3, 5 }
    [] world = 3 -> { 1001, 1002 }
    [] OTHER     -> { 3, 7 }

\* the timestamps (milliseconds, as the ticks carry them) asked for; world 1
\* is asked by number only
BlockTimestamps ==
  CASE world = 1 -> { }
    [] world = 2 -> { 3500, 500 }
    [] world = 3 -> { 1003000 }
    [] OTHER     -> { 7500, 6500, 4500 }

\* the queries << number, timestamp >> of a /block request: one parameter,
\* both (with a valid number and with a number below zero), or none
BlockQueries ==
  { << n, Absent >> : n \in BlockNumbers }
  \cup { << Absent, t >> : t \in BlockTimestamps }
  \cup { << n, t >> : n \in { -5 } \cup { m \in BlockNumbers : \A k \in BlockNumbers : m <= k },
                      t \in { u \in BlockTimestamps : \A v \in BlockTimestamps : u <= v } }
  \cup { << Absent, Absent >> }

\* the outages a /block request may meet
BlockOutages ==
  { {}, {EpStatus}, {EpPage(StatusEpoch - 1, 1)} }

\* GET /block.  The record keeps what the lookup returned and, when the
\* request before it looked up the same number, what it returned then.
BlockRequest ==
  \E q \in BlockQueries, down \in BlockOutages :
    \E r \in { getBlock(cache, q[1], q[2], down) } :
       LET repeat == /\ last.op = "block" /\ last.by = "number" /\ last.status # 400
                     /\ r.by = "number" /\ r.status # 400
                     /\ last.number = q[1]
       IN /\ served < MaxRequests
          /\ served' = served + 1
          /\ cache' = r.cache
          /\ last' = [op |-> "block", status |-> r.status, number |-> q[1],
                      timestamp |-> q[2], by |-> r.by, allUp |-> down = {},
                      tick |-> r.tick, answer |-> r.answer, block |-> r.block,
                      path |-> r.path, seen |-> r.seen, scan |-> r.scan,
                      at |-> now, repeat |-> repeat,
                      prevTick |-> IF repeat THEN last.tick ELSE NoTick,
                      prevPath |-> IF repeat THEN last.path ELSE "none"]
          /\ UNCHANGED <<paging, requestCounts, world, head, now, client, ctl, inflight>>

NextBlock == ClockTick \/ BlockRequest

\* getBlock is the same in both controllers
InitBlock == Init /\ ctl = "new"

SpecBlock == InitBlock /\ [][NextBlock]_vars

\* The epoch cache under calls of getAllTicksFromEpoch and findEpochForTick
\* that come from requests running at the same time: a call that misses the
\* cache is in flight while its pages are awaited and writes when it ends.

\* the epochs asked for and the two limits the callers pass
ListedEpochs == { StatusEpoch, StatusEpoch - 1 }
EpochLimits == { Infinity, RANGE_PROBE_TICKS }
EpochOutages == { {}, {EpPage(StatusEpoch - 1, 1)} }

\* the tick numbers asked of findEpochForTick: first and last ticks of the
\* epochs and ticks between them
FindNumbers ==
  CASE world = 1 -> { 14, 10, 7, 3 }
    [] world = 2 -> { 6, 3, 1 }
    [] world = 3 -> { 1004, 1002, 1000 }
    [] OTHER     -> { 14, 6, 3, 1 }

\* getAllTicksFromEpoch up to its first await: a cached listing is returned
\* at once, else the call is in flight
BeginEpochTicks ==
  \E e \in ListedEpochs, maxTicks \in EpochLimits, down \in EpochOutages :
    /\ served < MaxRequests
    /\ served' = served + 1
    /\ IF EpochIsCached(cache, e)
       THEN /\ last' = [op |-> "epochTicks", status |-> 0, epoch |-> e,
                        maxTicks |-> maxTicks, allUp |-> TRUE, fromCache |-> TRUE,
                        ticks |-> cache.epochData[e],
                        rangesBefore |-> cache.epochRanges]
            /\ UNCHANGED inflight
       ELSE /\ last' = [op |-> "epochTicksBegun", status |-> 0, epoch |-> e,
                        maxTicks |-> maxTicks]
            /\ inflight' = inflight \cup { [epoch |-> e, maxTicks |-> maxTicks,
                                           down |-> down] }
    /\ UNCHANGED <<paging, requestCounts, world, head, now, client, ctl, cache>>

NoCall == [none |-> TRUE]

\* the record of a call that was in flight and has ended
EndedInFlight(rec) == rec.op = "epochTicks" /\ ~rec.fromCache

\* a call in flight ends: it stores what it fetched.  The record keeps the
\* cache the call wrote to and, when the step before was the end of another
\* call (the two were in flight together), that call and the cache it wrote to
FinishEpochTicks ==
  \E p \in inflight :
    \E r \in { FetchAndStoreEpoch(cache, p.epoch, p.maxTicks, p.down) } :
       /\ cache' = r.cache
       /\ inflight' = inflight \ {p}
       /\ last' = [op |-> "epochTicks", status |-> 0, epoch |-> p.epoch,
                   maxTicks |-> p.maxTicks, allUp |-> p.down = {}, fromCache |-> FALSE,
                   ticks |-> r.ticks, rangesBefore |-> cache.epochRanges,
                   down |-> p.down, cacheBefore |-> cache,
                   overlapped |-> IF EndedInFlight(last)
                                  THEN [epoch |-> last.epoch, maxTicks |-> last.maxTicks,
                                        down |-> last.down,
                                        cacheBefore |-> last.cacheBefore]
                                  ELSE NoCall]
       /\ UNCHANGED <<paging, requestCounts, world, head, now, client, ctl, served>>

\* findEpochForTick(n)
FindEpochCall ==
  \E n \in FindNumbers, down \in EpochOutages :
    \E r \in { findEpochForTick(cache, n, down) } :
       /\ served < MaxRequests
       /\ served' = served + 1
       /\ cache' = r.cache
       /\ last' = [op |-> "findEpoch", status |-> 0, number |-> n, epoch |-> r.epoch,
                   untouched |-> r.cache = cache, rangesBefore |-> cache.epochRanges]
       /\ UNCHANGED <<paging, requestCounts, world, head, now, client, ctl, inflight>>

NextEpochs == BeginEpochTicks \/ FinishEpochTicks \/ FindEpochCall

\* the two methods are the same in both clients; client B is the one whose
\* requests call findEpochForTick
InitEpochs == Init /\ ctl = "new" /\ client = "B"

SpecEpochs == InitEpochs /\ [][NextEpochs]_vars

\* Calls of findEpochForTick one after the other, with the epochs each call
\* asked for.

\* the numbers asked for: ticks that are listed, and ticks no epoch lists
LocateNumbers ==
  CASE world = 1 -> { 14, 9, 3, 11 }
    [] world = 2 -> { 6, 1, 9 }
    [] world = 3 -> { 1004, 1001, 999 }
    [] OTHER     -> { 14, 5, 3, 20 }

LocateOutages == { {}, {EpPage(StatusEpoch - 1, 0)}, {EpPage(StatusEpoch, 0)} }

LocateEpochCall ==
  \E n \in LocateNumbers, down \in LocateOutages :
    \E r \in { findEpochForTick(cache, n, down) } :
       /\ served < MaxRequests
       /\ served' = served + 1
       /\ cache' = r.cache
       /\ last' = [op |-> "findEpoch", status |-> 0, number |-> n, epoch |-> r.epoch,
                   untouched |-> r.cache = cache, found |-> r.found, currentEpoch |-> r.currentEpoch,
                   recent |-> r.recent, probed |-> r.probed,
                   rangesBefore |-> cache.epochRanges,
                   rangesAfter |-> r.cache.epochRanges,
                   listedBefore |-> DOMAIN cache.epochData]
       /\ UNCHANGED <<paging, requestCounts, world, head, now, client, ctl, inflight>>

NextLocate == LocateEpochCall

InitLocate == Init /\ ctl = "new" /\ client = "B"

SpecLocate == InitLocate /\ [][NextLocate]_vars

\* Calls of getTicksInBlockRange of either client, with the epochs the call
\* searched and the epochs the earlier definition of client B names for the
\* same cache and range.

RangesAsked ==
  CASE world = 1 -> { <<1, 6>>, <<9, 13>>, <<12, 13>>, <<20, 20>>, <<1, 24>> }
    [] world = 2 -> { <<1, 6>>, <<4, 4>>, <<9, 9>>, <<3, 4>> }
    [] world = 3 -> { <<1000, 1005>>, <<1004, 1004>> }
    [] OTHER     -> { <<3, 5>>, <<5, 8>>, <<12, 13>> }

RangeOutages == { {}, {EpPage(StatusEpoch, 0)}, {EpStatus} }

RangeTicksCall ==
  \E rg \in RangesAsked, down \in RangeOutages :
    \E r \in { getTicksInBlockRange(cache, rg[1], rg[2], down) } :
      \E named \in { B_epochsToSearch(cache, rg[1], rg[2], down) } :
       /\ served < MaxRequests
       /\ served' = served + 1
       /\ cache' = r.cache
       /\ last' = [op |-> "rangeTicks", status |-> 0, fromBlock |-> rg[1],
                   toBlock |-> rg[2],
                   ticks |-> [ i \in 1..Len(r.ticks) |-> r.ticks[i].tickNumber ],
                   path |-> r.path, searched |-> r.searched,
                   asked |-> IF client = "A" THEN r.asked ELSE {},
                   currentEpoch |-> IF client = "A" THEN r.currentEpoch ELSE Absent,
                   epochFound |-> named.epochFound, epochs |-> named.epochs,
                   startEpoch |-> named.startEpoch, endEpoch |-> named.endEpoch,
                   rangesBefore |-> cache.epochRanges]
       /\ UNCHANGED <<paging, requestCounts, world, head, now, client, ctl, inflight>>

NextRange == RangeTicksCall

InitRange == Init /\ ctl = "new"

SpecRange == InitRange /\ [][NextRange]_vars

\* The while loop of getAllTicksFromEpoch, one request at a time, with an
\* upstream that answers each request as it likes: a full page, a short page,
\* an empty page, 429 or another error.  nonEmptyLeft is the number of pages
\* with ticks that upstream has yet to serve.  emptyRun and limitedRun count
\* the empty pages and the 429 answers received in a row, noData the answers
\* without ticks since the last page with ticks.

PageAnswers == { "full", "short", "empty", "rateLimited", "error" }

\* emptyPageCount >= MAX_EMPTY_PAGES
EmptyPagesEnd_OneLater(emptyPageCount) == emptyPageCount > MAX_EMPTY_PAGES
EmptyPagesEnd(emptyPageCount) == emptyPageCount >= MAX_EMPTY_PAGES

\* emptyPageCount >= MAX_EMPTY_PAGES * 2
RateLimitEnd(emptyPageCount) == emptyPageCount >= 2 * MAX_EMPTY_PAGES

\* the loop's variables after one answer
AfterAnswer(lp, answer, n) ==
  LET asked == [lp EXCEPT !.requests = @ + 1]
  IN CASE answer = "full" ->
            [asked EXCEPT !.emptyPageCount = 0, !.collected = @ + PageSize,
                          !.page = @ + 1, !.nonEmptyLeft = @ - 1, !.dataPages = @ + 1,
                          !.emptyRun = 0, !.limitedRun = 0, !.noData = 0,
                          !.ended = IF lp.collected + PageSize >= lp.maxTicks
                                    THEN "limit" ELSE "none"]
       [] answer = "short" ->
            [asked EXCEPT !.emptyPageCount = 0, !.collected = @ + n,
                          !.nonEmptyLeft = @ - 1, !.dataPages = @ + 1,
                          !.emptyRun = 0, !.limitedRun = 0, !.noData = 0,
                          !.ended = "shortPage"]
       [] answer = "empty" ->
            [asked EXCEPT !.emptyPageCount = @ + 1,
                          !.page = IF EmptyPagesEnd(lp.emptyPageCount + 1) THEN @ ELSE @ + 1,
                          !.emptyRun = @ + 1, !.limitedRun = 0, !.noData = @ + 1,
                          !.ended = IF EmptyPagesEnd(lp.emptyPageCount + 1)
                                    THEN "emptyPages" ELSE "none"]
       [] answer = "rateLimited" ->
            [asked EXCEPT !.emptyPageCount = @ + 1,
                          !.emptyRun = 0, !.limitedRun = @ + 1, !.noData = @ + 1,
                          !.ended = IF RateLimitEnd(lp.emptyPageCount + 1)
                                    THEN "rateLimited" ELSE "none"]
       [] OTHER -> [asked EXCEPT !.ended = "error"]

\* getAllTicksFromEpoch misses the cache and enters the loop
BeginPaging ==
  \E maxTicks \in EpochLimits, nonEmpty \in 0..MaxDataPages :
    /\ ~paging.running
    /\ served < MaxRequests
    /\ served' = served + 1
    /\ paging' = [NotPaging EXCEPT !.running = TRUE, !.maxTicks = maxTicks,
                                   !.nonEmptyLeft = nonEmpty]
    /\ UNCHANGED <<requestCounts, world, head, now, client, ctl, cache, last, inflight>>

\* one turn of the loop: a request and what its answer does
PagingStep ==
  \E answer \in PageAnswers, n \in 1..(PageSize - 1) :
    /\ paging.running /\ paging.ended = "none"
    /\ answer \in { "full", "short" } => paging.nonEmptyLeft > 0
    /\ paging' = AfterAnswer(paging, answer, n)
    /\ UNCHANGED <<requestCounts, world, head, now, client, ctl, cache, last, served,
                   inflight>>

\* the loop has ended and the call returns
EndPaging ==
  /\ paging.running /\ paging.ended # "none"
  /\ paging' = NotPaging
  /\ UNCHANGED <<requestCounts, world, head, now, client, ctl, cache, last, served,
                 inflight>>

NextPaging == BeginPaging \/ PagingStep \/ EndPaging

InitPaging == Init /\ world = 1 /\ ctl = "new"

\* every request is answered, so the loop goes on as long as it can
SpecPaging ==
  InitPaging /\ [][NextPaging]_vars /\ WF_vars(PagingStep) /\ WF_vars(EndPaging)

\* The rate limiting middleware of app.js.

RATE_LIMIT_WINDOW == 60000
\* the addresses requests come from
Addresses == { "10.0.0.1", "10.0.0.2" }

\* requestCounts[ip] || []
CountsOf(counts, ip) == IF ip \in DOMAIN counts THEN counts[ip] ELSE << >>

\* timestamp > now - RATE_LIMIT_WINDOW
InWindow(timestamp, t) == timestamp > t - RATE_LIMIT_WINDOW

\* requestCounts[ip].length >= RATE_LIMIT
RateLimitExceeded_OneMore(recorded) == Len(recorded) > RATE_LIMIT
RateLimitExceeded(recorded) == Len(recorded) >= RATE_LIMIT

\* app.use((req, res, next) => ...): the old timestamps of the address are
\* dropped, then the request is answered 429 or recorded and passed on
rateLimit(counts, ip, t) ==
  LET kept == SelectSeq(CountsOf(counts, ip), LAMBDA timestamp : InWindow(timestamp, t))
  IN IF RateLimitExceeded(kept)
     THEN [counts |-> Put(counts, ip, kept), status |-> 429, next |-> FALSE]
     ELSE [counts |-> Put(counts, ip, Append(kept, t)), status |-> 0, next |-> TRUE]

\* the requests seen so far, oldest first
RequestLog == IF last.op = "limited" THEN last.log ELSE << >>

\* a request arrives from an address
RequestArrives ==
  \E ip \in Addresses :
    \E r \in { rateLimit(requestCounts, ip, now) } :
       /\ served < MaxArrivals
       /\ served' = served + 1
       /\ requestCounts' = r.counts
       /\ last' = [op |-> "limited", status |-> r.status, ip |-> ip, at |-> now,
                   next |-> r.next, before |-> requestCounts,
                   log |-> Append(RequestLog, [ip |-> ip, at |-> now, next |-> r.next])]
       /\ UNCHANGED <<paging, world, head, now, client, ctl, cache, inflight>>

\* time passes between requests
TimePasses ==
  /\ now < ClockStart + MaxWindowSteps * ClockStep
  /\ now' = now + ClockStep
  /\ UNCHANGED <<paging, requestCounts, world, head, client, ctl, cache, last, served, inflight>>

NextLimiter == RequestArrives \/ TimePasses

InitLimiter == Init /\ world = 1 /\ client = "A" /\ ctl = "new"

SpecLimiter == InitLimiter /\ [][NextLimiter]_vars

\* GET /events with the parameters as the client wrote them.

\* digits beyond the largest Number
TooManyDigits == Decimal(NumberMaxValue) \o << "9" >>

\* the pairs << fromBlock, toBlock >> asked for: a parameter missing, not a
\* number, negative, the range reversed, too large, valid, valid with
\* characters that parseInt skips, and beyond the largest Number
Queries ==
  { << << >>, Decimal(4) >>, << Decimal(4), << >> >>, << << "a" >>, Decimal(4) >>,
    << << "-", "1" >>, Decimal(4) >>, << Decimal(6), Decimal(4) >>,
    << Decimal(0), Decimal(MAX_BLOCK_RANGE) >>, << Decimal(1), Decimal(MAX_BLOCK_RANGE) >>,
    << Decimal(4), Decimal(6) >>, << << "5", "a" >>, << "6", ".", "9" >> >>,
    << << " ", "3" >>, << "+", "4" >> >>, << Decimal(0), Decimal(0) >>,
    << Decimal(4), TooManyDigits >>, << TooManyDigits, Decimal(4) >>,
    << TooManyDigits, TooManyDigits >> }

QueryOutages == { {}, {EpStatus} }

EventsQuery ==
  \E q \in Queries, down \in QueryOutages :
    \E r \in { getEvents(cache, q[1], q[2], down) } :
       /\ served < MaxRequests
       /\ served' = served + 1
       /\ cache' = r.cache
       /\ last' = [op |-> "query", status |-> r.status, fromBlock |-> q[1],
                   toBlock |-> q[2], invoked |-> r.invoked, from |-> r.from,
                   to |-> r.to, untouched |-> r.cache = cache, path |-> r.path,
                   ticks |-> r.ticks]
       /\ UNCHANGED <<paging, requestCounts, world, head, now, client, ctl, inflight>>

NextQuery == EventsQuery

SpecQuery == Init /\ [][NextQuery]_vars

\* Calls of getTransactionsForTick of client A.

TransactionTicks ==
  CASE world = 1 -> { 12, 5, 13, 1 }
    [] world = 2 -> { 4, 3, 6 }
    [] world = 3 -> { 1000, 1002, 1004 }
    [] OTHER     -> { 4, 2, 7 }

TransactionsCall ==
  \E t \in TransactionTicks, failing \in BOOLEAN :
    \E r \in { getTransactionsForTick(cache, t, IF failing THEN {EpTx(t)} ELSE {}) } :
       /\ served < MaxRequests
       /\ served' = served + 1
       /\ cache' = r.cache
       /\ last' = [op |-> "transactions", status |-> 0, tick |-> t, txs |-> r.txs,
                   called |-> r.called, threw |-> r.threw, failing |-> failing,
                   before |-> cache.transactions]
       /\ UNCHANGED <<paging, requestCounts, world, head, now, client, ctl, inflight>>

NextTransactions == TransactionsCall

InitTransactions == Init /\ client = "A" /\ ctl = "new"

SpecTransactions == InitTransactions /\ [][NextTransactions]_vars

\* Calls of getTickByNumber of client A.

TickNumbersAsked ==
  CASE world = 1 -> { 1, 3, 11, 12 }
    [] world = 2 -> { 1, 4, 5, 6 }
    [] world = 3 -> { 1001, 1004 }
    [] OTHER     -> { 2, 6, 7, 9 }

TickOutages ==
  { {}, {EpStatus}, {EpPage(StatusEpoch, 0)}, {EpPage(StatusEpoch, 2)},
    {EpPage(StatusEpoch, 3), EpPage(StatusEpoch - 1, 1)} }

TickByNumberCall ==
  \E n \in TickNumbersAsked, down \in TickOutages :
    \E r \in { A_getTickByNumber(cache, n, down) } :
       /\ served < MaxRequests
       /\ served' = served + 1
       /\ cache' = r.cache
       /\ last' = [op |-> "tickByNumber", status |-> 0, number |-> n, tick |-> r.tick,
                   path |-> r.path, pages |-> r.pages, fetches |-> r.fetches,
                   currentEpoch |-> r.currentEpoch,
                   estimatedPageUp |-> EpPage(r.currentEpoch, n \div PageSize) \notin down]
       /\ UNCHANGED <<paging, requestCounts, world, head, now, client, ctl, inflight>>

NextTick == TickByNumberCall

InitTick == Init /\ client = "A" /\ ctl = "new"

SpecTick == InitTick /\ [][NextTick]_vars

\* Calls of findNearestTickWithBinarySearch (client A).

SearchEpochs == { StatusEpoch, StatusEpoch - 1 }

SearchTargets ==
  CASE world = 1 -> { 4, 5, 6, 11 }
    [] world = 2 -> { 1, 2, 3 }
    [] world = 3 -> { 1001, 1004 }
    [] world = 4 -> { 8, 9, 10, 11 }
    [] OTHER     -> { 100, 104, 106, 108, 110, 113, 114, 116 }

\* the pages the search asks for when every page above the listing is empty
SearchOutages ==
  { {}, {EpPage(StatusEpoch, 2)}, {EpPage(StatusEpoch, 6)}, {EpPage(StatusEpoch, 500)},
    {EpPage(StatusEpoch, 2), EpPage(StatusEpoch, 10)} }

BinarySearchCall ==
  \E e \in SearchEpochs, target \in SearchTargets, down \in SearchOutages :
    \E r \in { findNearestTickWithBinarySearch(e, target, down) } :
       /\ served < MaxRequests
       /\ served' = served + 1
       /\ last' = [op |-> "binarySearch", status |-> 0, epoch |-> e, target |-> target,
                   tick |-> r.tick, seen |-> r.seen, attempts |-> r.attempts,
                   within |-> r.within, lowPage |-> r.lowPage, highPage |-> r.highPage]
       /\ UNCHANGED <<paging, requestCounts, world, head, now, client, ctl, cache, inflight>>

NextSearch == BinarySearchCall

InitSearch ==
  /\ world \in 1..Len(Worlds)
  /\ head = MinHead
  /\ now = ClockStart
  /\ client = "A"
  /\ ctl = "new"
  /\ cache = EmptyCache
  /\ last = Idle
  /\ served = 0
  /\ inflight = {}
  /\ requestCounts = << >>
  /\ paging = NotPaging

SpecSearch == InitSearch /\ [][NextSearch]_vars

\* Calls of getAllTicksFromEpoch against an upstream that answers some page
\* requests with 429 or with another error.

FetchOutages ==
  { {}, {EpPage(StatusEpoch - 1, 1)}, {EpPage(StatusEpoch, 0)},
    {EpRate(StatusEpoch - 1, 0, 1)}, {EpRate(StatusEpoch - 1, 1, 2)},
    {EpRate(StatusEpoch, 0, 2 * MAX_EMPTY_PAGES)},
    {EpRate(StatusEpoch - 1, 1, 2 * MAX_EMPTY_PAGES)},
    {EpRate(StatusEpoch, 0, 2), EpPage(StatusEpoch, 1)} }

\* getAllTicksFromEpoch(e, maxTicks) run to its end
EpochTicksCall ==
  \E e \in ListedEpochs, maxTicks \in EpochLimits, down \in FetchOutages :
    \E r \in { getAllTicksFromEpoch(cache, e, maxTicks, down) } :
       /\ served < MaxRequests
       /\ served' = served + 1
       /\ cache' = r.cache
       /\ last' = IF EpochIsCached(cache, e)
                  THEN [op |-> "epochFetch", status |-> 0, epoch |-> e,
                        maxTicks |-> maxTicks, fromCache |-> TRUE, ticks |-> r.ticks]
                  ELSE [op |-> "epochFetch", status |-> 0, epoch |-> e,
                        maxTicks |-> maxTicks, fromCache |-> FALSE, ticks |-> r.ticks,
                        delays |-> r.delays, ended |-> r.ended, threw |-> r.threw,
                        listed |-> r.cache.epochData[e]]
       /\ UNCHANGED <<paging, requestCounts, world, head, now, client, ctl, inflight>>

NextFetch == EpochTicksCall

\* getAllTicksFromEpoch is the same in both clients but for the page size
InitFetch == Init /\ ctl = "new"

SpecFetch == InitFetch /\ [][NextFetch]_vars

\* Calls of getCurrentEpoch while the clock moves between the instants one
\* millisecond before, at, and one millisecond after the multiples of the
\* life of the snapshot.

StatusOutages == { {}, {EpStatus}, {EpStatusNoEpoch} }

StatusInstants ==
  { t \in { ClockStart + k * ClockStep + d : k \in 0..MaxClockSteps, d \in {-1, 0, 1} } :
      ClockStart <= t /\ t <= ClockStart + MaxClockSteps * ClockStep }

StatusClockTick ==
  \E t \in StatusInstants :
    /\ t > now
    /\ now' = t
    /\ UNCHANGED <<paging, requestCounts, world, head, client, ctl, cache, last, served, inflight>>

\* getCurrentEpoch(); the record keeps the snapshot the call found
CurrentEpochCall ==
  \E down \in StatusOutages :
    \E r \in { getCurrentEpoch(cache, down) } :
       /\ served < MaxRequests
       /\ served' = served + 1
       /\ cache' = r.cache
       /\ last' = [op |-> "currentEpoch", status |-> 0, val |-> r.val,
                   called |-> r.called, response |-> StatusResponse(down), at |-> now,
                   statusBefore |-> cache.status,
                   statusTimestampBefore |-> cache.statusTimestamp,
                   untouched |-> r.cache = cache]
       /\ UNCHANGED <<paging, requestCounts, world, head, now, client, ctl, inflight>>

NextStatus == StatusClockTick \/ CurrentEpochCall

\* getCurrentEpoch is the same in both clients
InitStatus == Init /\ ctl = "new"

SpecStatus == InitStatus /\ [][NextStatus]_vars

---------------------------------------------------------------------------
(* Asset, exchange and pair lookups: getAssetById, getExchangeById,        *)
(* getPairById and their controllers.                                      *)

\* at most MaxAnswering of the endpoints of a lookup answer; the others fail
MaxAnswering == 2

\* the endpoint templates in the order the lookups list them
AssetEndpoints ==
  << "/v1/assets/", "/v2/assets/", "/assets/v1/", "/assets/v2/" >>
IdentityEndpoints ==
  << "/v1/identities/", "/v2/identities/", "/identities/v1/", "/identities/v2/" >>
ExchangeEndpoints ==
  << "/v1/exchanges/", "/v2/exchanges/", "/exchanges/v1/", "/exchanges/v2/" >>
PairEndpoints ==
  << "/v1/pairs/", "/v2/pairs/", "/pairs/v1/", "/pairs/v2/" >>

EndpointsOf(kind) ==
  CASE kind = "asset" -> AssetEndpoints \o IdentityEndpoints
    [] kind = "exchange" -> ExchangeEndpoints
    [] OTHER -> PairEndpoints

\* what one endpoint does: the request fails, the body lacks the identifying
\* field (id, factoryAddress for an exchange), or the body carries it
ResponseKinds == { "fail", "nodata", "data" }

\* one response per endpoint template
ResponseVectors(kind) ==
  { v \in [ 1..Len(EndpointsOf(kind)) -> ResponseKinds ] :
      Cardinality({ i \in DOMAIN v : v[i] # "fail" }) <= MaxAnswering }

\* if (data && data.id) / if (exchangeData && exchangeData.factoryAddress)
CarriesIdentifyingField_AnyBody(response) == response # "fail"
CarriesIdentifyingField(response) == response = "data"

NoRecord == [none |-> TRUE]

\* for (const endpoint of endpoints): a failing request is caught and the
\* loop goes on; tried lists the endpoints asked, by their place in the
\* list of the lookup
RECURSIVE TryEndpoints(_, _, _, _)
TryEndpoints(responses, i, hi, tried) ==
  CASE i > hi -> [found |-> FALSE, at |-> 0, tried |-> tried]
    [] i <= hi /\ CarriesIdentifyingField(responses[i]) ->
         [found |-> TRUE, at |-> i, tried |-> Append(tried, i)]
    [] OTHER -> TryEndpoints(responses, i + 1, hi, Append(tried, i))

\* the record built from the body of endpoint `at`: the identifying field
\* as upstream sent it, the name upstream sent or the default one
RecordFrom(id, at, named, defaultName) ==
  [id |-> id, name |-> IF named THEN "upstream name" ELSE defaultName, source |-> at]

\* getAssetById: the asset endpoints, then the identity endpoints
getAssetById(id, responses, named) ==
  LET identities(first, second) ==
        IF second.found
        THEN [record |-> RecordFrom(id, second.at, named, "Asset " \o id),
              tried |-> second.tried]
        ELSE [record |-> NoRecord, tried |-> second.tried]
      assets(first) ==
        IF first.found
        THEN [record |-> RecordFrom(id, first.at, named, "Asset " \o id),
              tried |-> first.tried]
        ELSE identities(first,
                        TryEndpoints(responses, Len(AssetEndpoints) + 1,
                                     Len(AssetEndpoints) + Len(IdentityEndpoints),
                                     first.tried))
  IN assets(TryEndpoints(responses, 1, Len(AssetEndpoints), << >>))

getExchangeById(id, responses, named) ==
  LET exchanges(first) ==
        IF first.found
        THEN [record |-> RecordFrom(id, first.at, named, "Qubic DEX"),
              tried |-> first.tried]
        ELSE [record |-> NoRecord, tried |-> first.tried]
  IN exchanges(TryEndpoints(responses, 1, Len(ExchangeEndpoints), << >>))

getPairById(id, responses, named) ==
  LET pairs(first) ==
        IF first.found
        THEN [record |-> RecordFrom(id, first.at, named, ""), tried |-> first.tried]
        ELSE [record |-> NoRecord, tried |-> first.tried]
  IN pairs(TryEndpoints(responses, 1, Len(PairEndpoints), << >>))

\* AssetController.getAsset, ExchangeController.getExchange and
\* PairController.getPair: 400 without an id, 404 when the lookup returns
\* null, else the transformed record
LookupAnswer(id, lookedUp) ==
  CASE id = "" -> [status |-> 400, record |-> NoRecord, tried |-> << >>]
    [] id # "" /\ lookedUp.record = NoRecord ->
         [status |-> 404, record |-> NoRecord, tried |-> lookedUp.tried]
    [] OTHER -> [status |-> 200, record |-> lookedUp.record, tried |-> lookedUp.tried]

getAsset(id, responses, named) ==
  LookupAnswer(id, IF id = "" THEN [record |-> NoRecord, tried |-> << >>]
                   ELSE getAssetById(id, responses, named))
getExchange(id, responses, named) ==
  LookupAnswer(id, IF id = "" THEN [record |-> NoRecord, tried |-> << >>]
                   ELSE getExchangeById(id, responses, named))
getPair(id, responses, named) ==
  LookupAnswer(id, IF id = "" THEN [record |-> NoRecord, tried |-> << >>]
                   ELSE getPairById(id, responses, named))

\* the ids of the requests: none, or one id
LookupIds == { "", "QX" }

Looked(kind, id, responses, named, r) ==
  /\ served < MaxRequests
  /\ served' = served + 1
  /\ last' = [op |-> kind, status |-> r.status, id |-> id, responses |-> responses,
              named |-> named, tried |-> r.tried, record |-> r.record]
  /\ UNCHANGED <<paging, requestCounts, world, head, now, client, ctl, cache, inflight>>

\* GET /asset?id=
AssetRequest ==
  \E id \in LookupIds, named \in BOOLEAN, responses \in ResponseVectors("asset") :
    Looked("asset", id, responses, named, getAsset(id, responses, named))

\* GET /exchange?id=
ExchangeRequest ==
  \E id \in LookupIds, named \in BOOLEAN, responses \in ResponseVectors("exchange") :
    Looked("exchange", id, responses, named, getExchange(id, responses, named))

\* GET /pair?id=
PairRequest ==
  \E id \in LookupIds, named \in BOOLEAN, responses \in ResponseVectors("pair") :
    Looked("pair", id, responses, named, getPair(id, responses, named))

NextLookup == AssetRequest \/ ExchangeRequest \/ PairRequest

\* the lookups are the same in both clients and use neither the ticks nor
\* the cache
InitLookup == Init /\ world = 1 /\ ctl = "new"

SpecLookup == InitLookup /\ [][NextLookup]_vars

---------------------------------------------------------------------------
(* Claims about GET /latest-block.                                         *)

Answered == last.op = "latest-block" /\ last.status = 200

\* C1: every /latest-block answer that carries a block has
\* blockNumber <= head - LATEST_BLOCK_SAFETY_BUFFER, head being the latest
\* tick number read from upstream in the same request
C1_SafeTickWithinBuffer ==
  Answered => last.block.blockNumber <= last.headRead - LATEST_BLOCK_SAFETY_BUFFER

\* C2: whenever /latest-block answers with a block, the transaction endpoint
\* of exactly that tick answered successfully earlier in the same request,
\* and a tick whose transaction endpoint failed in the request is not returned
C2_ReturnedTickWasProbed ==
  Answered => /\ last.block.blockNumber \in last.probedOk
              /\ last.block.blockNumber \notin last.probedFailed

---------------------------------------------------------------------------
(* Claims about GET /events.                                               *)

EventsAnswered == last.op = "events" /\ last.status = 200

ValidRange == last.op = "events" /\ 0 <= last.fromBlock /\ last.fromBlock <= last.toBlock

InRequestedRange(n) == last.fromBlock <= n /\ n <= last.toBlock

\* the ordering key of an event
EventKey(ev) == << ev.block.blockNumber, ev.eventIndex >>

KeyLeq(k1, k2) == k1[1] < k2[1] \/ (k1[1] = k2[1] /\ k1[2] <= k2[2])

\* the ticks upstream lists in some epoch with a number in the requested range
ListedInRange ==
  { t \in UNION { TickNumbers(Listing(e)) : e \in 0..StatusEpoch } : InRequestedRange(t) }

\* C3: every event of a /events answer has fromBlock <= blockNumber <= toBlock
C3_EventsWithinRange ==
  EventsAnswered =>
    \A i \in 1..Len(last.events) : InRequestedRange(last.events[i].block.blockNumber)

\* C4: when every upstream call of the request succeeds, the answer holds one
\* event for each transaction of recognised type of each tick that upstream
\* lists in the requested range
C4_AllEventsDelivered ==
  (EventsAnswered /\ last.allUp) =>
    \A t \in ListedInRange :
      \A k \in 1..Len(UpTxs(t)) :
        Recognised(UpTxs(t)[k]) =>
          Cardinality({ i \in 1..Len(last.events) :
                          /\ last.events[i].block.blockNumber = t
                          /\ last.events[i].txnId = UpTxs(t)[k].id }) = 1

\* C5: the events of an answer are sorted by (blockNumber, eventIndex)
C5_EventsSorted ==
  EventsAnswered =>
    \A i \in 1..(Len(last.events) - 1) :
      KeyLeq(EventKey(last.events[i]), EventKey(last.events[i + 1]))

\* an answer whose events were extracted in another order than the sorted
\* one, with two events of one block among them
C5_SortReordered ==
  /\ EventsAnswered
  /\ last.extracted # last.events
  /\ \E i \in 1..(Len(last.events) - 1) :
       /\ last.events[i].block.blockNumber = last.events[i + 1].block.blockNumber
       /\ last.events[i].eventIndex < last.events[i + 1].eventIndex
       /\ last.events[i].txnId > last.events[i + 1].txnId

\* C6: no two events of one answer share the key (blockNumber, eventIndex)
C6_NoDuplicateKeys ==
  EventsAnswered =>
    \A i, j \in 1..Len(last.events) :
      i # j => EventKey(last.events[i]) # EventKey(last.events[j])

\* C7: a valid range is always answered 200 with an events array, built only
\* from ticks inside the range, and empty when no tick was found in range
C7_NeverFailsNeverSubstitutes ==
  ValidRange =>
    /\ last.status = 200
    /\ \A i \in 1..Len(last.ticks) : InRequestedRange(last.ticks[i])
    /\ (last.path \notin {"pages", "epochs"} => last.events = << >>)

\* C8: every transaction of recognised type of a collected tick yields one
\* event of type creation, swap, join or exit and every other transaction
\* none; ticks 1000, 1002, 1004 with 2, 0 and 1 recognised transactions
\* yield exactly 3 events for the range [1000, 1005]
C8_OneEventPerRecognisedTransaction ==
  /\ EventsAnswered =>
       \A i \in 1..Len(last.events) :
         last.events[i].eventType \in {"creation", "swap", "join", "exit"}
  /\ (EventsAnswered /\ last.allUp /\ world = 3
        /\ last.fromBlock = 1000 /\ last.toBlock = 1005)
       => Len(last.events) = 3

---------------------------------------------------------------------------
(* Claims about GET /block and getTickByNumber.                            *)

BlockAnswered == last.op = "block" /\ last.status = 200

\* C9: the tick answered for /block?number=n has tickNumber n, or no tick
\* that upstream showed during the lookup is nearer to n
C9_ExactOrNearestObserved ==
  BlockAnswered =>
    \/ last.answer.tickNumber = last.number
    \/ \A s \in last.seen :
         Abs(last.answer.tickNumber - last.number) <= Abs(s - last.number)

\* C10: a second getTickByNumber(n) right after the first returns the same
\* tickNumber, timestamp and epoch, whatever way the first one ended
C10_LookupIdempotent ==
  (last.op = "block" /\ last.repeat) =>
    /\ last.tick.tickNumber = last.prevTick.tickNumber
    /\ last.tick.timestamp = last.prevTick.timestamp
    /\ last.tick.epoch = last.prevTick.epoch

\* C10 (amended): a second getTickByNumber(n) right after a first one that
\* ended in an exact or a nearest match returns the same tickNumber,
\* timestamp and epoch; a lookup without a match returns tickNumber n and
\* the clock of its own call
C10_LookupIdempotentAfterMatch ==
  /\ (last.op = "block" /\ last.repeat /\ last.prevPath # "placeholder") =>
       /\ last.tick.tickNumber = last.prevTick.tickNumber
       /\ last.tick.timestamp = last.prevTick.timestamp
       /\ last.tick.epoch = last.prevTick.epoch
  /\ (last.op = "block" /\ last.path = "placeholder") =>
       /\ last.tick.tickNumber = last.number
       /\ last.tick.timestamp = last.at

\* a lookup that ended in a nearest match is repeated and answered with the
\* record the first call stored under the requested number
C10_RepeatedAfterNearestMatch ==
  /\ last.op = "block" /\ last.repeat
  /\ last.prevPath = "nearest"
  /\ last.path = "cached"
  /\ last.tick.tickNumber # last.number
  /\ last.tick = last.prevTick


\* C11: a /block?number=n request whose getTickByNumber(n) ended without an
\* exact or a nearest tick (a record made of n and the clock) is answered
\* 404 and no block is built from that record
C11_PlaceholderNeverServed ==
  (last.op = "block" /\ last.path = "placeholder") =>
    /\ last.status = 404
    /\ last.block = NoBlock


---------------------------------------------------------------------------
(* Claims about GET /block?timestamp=t and getTickByTimestamp.             *)

ByTimestamp == last.op = "block" /\ last.by = "timestamp" /\ last.status # 400

\* the timestamps at or before t that upstream lists in the current epoch
\* and the five epochs before it
ListedStampsUpTo(t) ==
  UNION { { Listing(e)[i].timestamp :
              i \in { j \in 1..Len(Listing(e)) :
                        Listing(e)[j].timestamp # Absent /\ Listing(e)[j].timestamp <= t } } :
          e \in (StatusEpoch - TIMESTAMP_EPOCHS_BACK)..StatusEpoch }

\* C12: when every upstream call of the request succeeds and upstream lists
\* a tick at or before t in the scanned epochs, getTickByTimestamp(t)
\* returns a tick at or before t and upstream lists no tick of those epochs
\* that is later than it and at or before t, whatever the cache held
C12_NewestTickAtOrBefore ==
  (ByTimestamp /\ last.allUp /\ ListedStampsUpTo(last.timestamp) # {}) =>
    /\ last.tick.timestamp <= last.timestamp
    /\ \A u \in ListedStampsUpTo(last.timestamp) : u <= last.tick.timestamp


C18_NumberTakesPrecedence ==
  [][ (last'.op = "block" /\ served' = served + 1) =>
        /\ (Supplied(last'.number) /\ Supplied(last'.timestamp)) =>
             /\ last'.by = "number"
             /\ last'.scan = NoScan
             /\ \E d \in BlockOutages :
                  \E r \in { getBlock(cache, last'.number, Absent, d) } :
                     /\ r.status = last'.status
                     /\ r.block = last'.block
                     /\ r.cache = cache'
        /\ (~Supplied(last'.number) /\ ~Supplied(last'.timestamp)) =>
             /\ last'.status = 400
             /\ last'.block = NoBlock
             /\ last'.tick = NoTick
             /\ cache' = cache ]_vars

\* a request with both parameters is answered with the block of the number,
\* which is later than the timestamp asked for
C18_AnsweredByNumberDespiteTimestamp ==
  /\ last.op = "block" /\ last.status = 200
  /\ Supplied(last.number) /\ Supplied(last.timestamp)
  /\ last.block.blockNumber = last.number
  /\ last.block.blockTimestamp * 1000 > last.timestamp

---------------------------------------------------------------------------
(* Further claims about GET /latest-block.                                 *)

FellBack == last.op = "latest-block" /\ ctl = "new" /\ last.path = "fallback"

\* C14: when the probe of the first candidate fails, getLatestBlock probes
\* fallback ticks in strictly decreasing tick-number order, every probed
\* fallback tick is older than the head and older than the failed candidate,
\* the first fallback tick whose probe succeeds is answered, and 500 is
\* answered once the fallback ticks, five at most, have all failed
C14_FallbackTicksOlderAndDescending ==
  FellBack =>
    /\ last.candidate \in last.probedFailed
    /\ Len(last.fallbacks) <= 5
    /\ \A i \in 1..Len(last.fallbacks) : \A j \in 1..Len(last.fallbacks) :
         i < j => last.fallbacks[i] > last.fallbacks[j]
    /\ \A i \in 1..last.tried :
         /\ last.fallbacks[i] < last.headRead
         /\ last.fallbacks[i] < last.candidate
    /\ (last.status = 200 =>
          /\ last.block.blockNumber = last.fallbacks[last.tried]
          /\ last.fallbacks[last.tried] \in last.probedOk
          /\ \A i \in 1..(last.tried - 1) : last.fallbacks[i] \in last.probedFailed)
    /\ (last.status = 500 =>
          /\ last.tried = Len(last.fallbacks)
          /\ \A i \in 1..last.tried : last.fallbacks[i] \in last.probedFailed)


\* C16: a /latest-block request whose getLatestTick could not read the head,
\* or resolved no tick record and made one up from the safe tick number and
\* the clock, is answered 500 without a block
C16_PlaceholderNeverLatestBlock ==
  (last.op = "latest-block" /\ ctl = "new" /\ last.path \in {"error", "placeholder"}) =>
    /\ last.status = 500
    /\ last.block = NoBlock

---------------------------------------------------------------------------
(* Claims about the epoch cache: findEpochForTick, getAllTicksFromEpoch.   *)

FoundEpoch == last.op = "findEpoch"

\* the epochs whose range, as cached when findEpochForTick(n) was called,
\* holds n, both bounds included
HoldingEpochs(n) ==
  { e \in DOMAIN last.rangesBefore :
      /\ last.rangesBefore[e].minTickNumber <= n
      /\ n <= last.rangesBefore[e].maxTickNumber }

\* C15: when the cache holds a range with minTickNumber <= n <= maxTickNumber,
\* findEpochForTick(n) returns an epoch with such a range and leaves the
\* cache as it was (no upstream call is made)
C15_CachedRangeIsInclusive ==
  (FoundEpoch /\ HoldingEpochs(last.number) # {}) =>
    /\ last.epoch \in HoldingEpochs(last.number)
    /\ last.untouched

\* findEpochForTick was asked for the last tick of a cached range and
\* returned the epoch of that range
C15_AskedForLastTickOfRange ==
  /\ FoundEpoch
  /\ last.epoch \in DOMAIN last.rangesBefore
  /\ last.number = last.rangesBefore[last.epoch].maxTickNumber
  /\ last.rangesBefore[last.epoch].minTickNumber < last.number
  /\ last.untouched


\* C19: whatever operation runs, also one of a request running at the same
\* time as another, an epoch that has a cached range keeps one, and the new
\* range reaches at least as far down and as far up as the old one
C19_RangeOnlyWidens ==
  [][ \A e \in DOMAIN cache.epochRanges :
        /\ e \in DOMAIN cache'.epochRanges
        /\ cache'.epochRanges[e].minTickNumber <= cache.epochRanges[e].minTickNumber
        /\ cache'.epochRanges[e].maxTickNumber >= cache.epochRanges[e].maxTickNumber ]_vars

\* C20: a call of getAllTicksFromEpoch(e) without a limit that is answered
\* from the cache, or whose own page requests all succeed, returns every
\* tick upstream lists for e
C20_ServedListingIsComplete ==
  (last.op = "epochTicks" /\ last.maxTicks = Infinity /\ last.allUp) =>
    TickNumbers(last.ticks) = TickNumbers(Listing(last.epoch))


---------------------------------------------------------------------------
(* Claims about the asset, exchange and pair lookups.                      *)

LookedUp == last.op \in {"asset", "exchange", "pair"} /\ last.status # 400

\* the first endpoint, in the listed order, whose body carries the
\* identifying field
FirstCarrying ==
  { i \in DOMAIN last.responses :
      /\ last.responses[i] = "data"
      /\ \A j \in 1..(i - 1) : last.responses[j] # "data" }

\* C17: the endpoints of a lookup are asked in the listed order, failing and
\* data-less ones are passed over, the record answered comes from the first
\* body that carries the identifying field, and when no body carries it the
\* answer is 404 without a record
C17_FirstCarryingEndpointOr404 ==
  LookedUp =>
    /\ \A k \in 1..Len(last.tried) : last.tried[k] = k
    /\ (FirstCarrying = {} =>
          /\ last.status = 404
          /\ last.record = NoRecord
          /\ Len(last.tried) = Len(last.responses))
    /\ \A i \in FirstCarrying :
          /\ last.status = 200
          /\ last.record.source = i
          /\ last.record.id = last.id
          /\ Len(last.tried) = i

\* an asset lookup whose first endpoint fails and whose second one sends no
\* data is answered from the first identity endpoint
C17_AnsweredAfterFailingAndEmptyEndpoints ==
  /\ last.op = "asset" /\ last.status = 200
  /\ last.responses[1] = "fail"
  /\ last.responses[2] = "nodata"
  /\ last.record.source = 5

---------------------------------------------------------------------------
(* Claims about the tick cache.                                            *)

\* C21: whatever operation runs, a number that has a cached tick record keeps
\* one, and the record stored under it afterwards has the same tickNumber,
\* timestamp and epoch as before
C21_CachedTickNeverChanges ==
  [][ \A n \in DOMAIN cache.ticks :
        /\ n \in DOMAIN cache'.ticks
        /\ cache'.ticks[n].tickNumber = cache.ticks[n].tickNumber
        /\ cache'.ticks[n].timestamp = cache.ticks[n].timestamp
        /\ cache'.ticks[n].epoch = cache.ticks[n].epoch ]_vars

---------------------------------------------------------------------------
(* Claims about calls that run at the same time.                           *)

\* the cache after call x and then call y of getAllTicksFromEpoch, each run
\* to its end before the next one starts
OneAfterTheOther(c, x, y) ==
  LET second(first) == getAllTicksFromEpoch(first.cache, y.epoch, y.maxTicks, y.down).cache
  IN second(getAllTicksFromEpoch(c, x.epoch, x.maxTicks, x.down))

\* two calls that both missed the cache were in flight together and have ended
BothEnded ==
  /\ last.op = "epochTicks" /\ ~last.fromCache
  /\ last.overlapped # NoCall
  /\ ~EpochIsCached(last.overlapped.cacheBefore, last.epoch)
  /\ ~EpochIsCached(last.overlapped.cacheBefore, last.overlapped.epoch)

\* C22: when two calls of getAllTicksFromEpoch were in flight together, the
\* cache after both have ended (tick records, epoch listings, epoch ranges,
\* transaction lists) is the cache that running the two calls one after the
\* other, in one of the two orders, produces from the cache they started on
C22_InterleavingEqualsSomeOrder ==
  BothEnded =>
    \E r \in { [epoch |-> last.epoch, maxTicks |-> last.maxTicks, down |-> last.down] } :
      \/ cache = OneAfterTheOther(last.overlapped.cacheBefore, last.overlapped, r)
      \/ cache = OneAfterTheOther(last.overlapped.cacheBefore, r, last.overlapped)

---------------------------------------------------------------------------
(* Claims about getCurrentEpoch.                                           *)

AskedEpoch == last.op = "currentEpoch"

\* the age of the snapshot the call found
SnapshotAge == last.at - last.statusTimestampBefore

\* C23: getCurrentEpoch answers the epoch of the cached snapshot, without a
\* status request and without touching the cache, while the snapshot is less
\* than 30 s old; it issues the status request when there is no snapshot or
\* the snapshot is 30 s old or more; and the snapshot and its timestamp are
\* replaced exactly when that request succeeds with an epoch
C23_SnapshotServedWhileFresh ==
  AskedEpoch =>
    /\ (last.statusBefore # NoStatus /\ SnapshotAge < STATUS_TTL) =>
          /\ ~last.called
          /\ last.val = last.statusBefore.epoch
          /\ last.untouched
    /\ (last.statusBefore = NoStatus \/ SnapshotAge >= STATUS_TTL) => last.called
    /\ (last.called /\ last.response = "epoch") =>
          /\ cache.status = [epoch |-> last.val]
          /\ cache.statusTimestamp = last.at
    /\ (last.called /\ last.response # "epoch") =>
          /\ last.untouched
          /\ cache.status = last.statusBefore
          /\ cache.statusTimestamp = last.statusTimestampBefore

\* a call answered from a snapshot one millisecond short of 30 s old
C23_AnsweredFromSnapshotJustBelowLimit ==
  /\ AskedEpoch
  /\ last.statusBefore # NoStatus
  /\ SnapshotAge = STATUS_TTL - 1
  /\ ~last.called

---------------------------------------------------------------------------
(* Claims about the paginated fetch of getAllTicksFromEpoch.               *)

Fetched == last.op = "epochFetch" /\ ~last.fromCache

\* the retries: the waits after 429 answers for one page grow from one to
\* the next, a call waits 2 * MAX_EMPTY_PAGES times at most, and a page whose
\* request fails otherwise is not asked for again
C24_RetriesGrowAndAreBounded ==
  Fetched =>
    /\ Len(last.delays) <= 2 * MAX_EMPTY_PAGES
    /\ \A i \in 1..(Len(last.delays) - 1) :
         last.delays[i].page = last.delays[i + 1].page =>
           last.delays[i].ms < last.delays[i + 1].ms

\* C24: in the paginated fetch a 429 answer has the same page asked for again
\* after a wait that grows with every consecutive 429, a bounded number of
\* times; a fetch that gives up after these retries, or that meets another
\* error, surfaces the failure and stores no listing for the epoch
C24_FailedFetchSurfacesUnavailable ==
  /\ C24_RetriesGrowAndAreBounded
  /\ (Fetched /\ last.ended \in {"rateLimited", "error"}) =>
        /\ last.threw
        /\ last.epoch \notin DOMAIN cache.epochData

---------------------------------------------------------------------------
(* Claims about findNearestTickWithBinarySearch.                           *)

Searched == last.op = "binarySearch"

\* C25: findNearestTickWithBinarySearch asks for 8 pages at most and ends
\* before that only on a page that holds the target between its ticks or
\* when lowPage > highPage; it returns the target tick when a page it asked
\* for lists it, else a tick at the least distance from the target among the
\* ticks of the pages it asked for, and null when none of them listed a tick
C25_NearestOfProbedPages ==
  Searched =>
    /\ last.attempts <= BINARY_SEARCH_MAX_ATTEMPTS
    /\ (last.attempts < BINARY_SEARCH_MAX_ATTEMPTS =>
          last.within \/ last.lowPage > last.highPage)
    /\ (last.target \in last.seen => last.tick.tickNumber = last.target)
    /\ (last.seen # {} =>
          /\ last.tick # NoTick
          /\ last.tick.tickNumber \in last.seen
          /\ \A t \in last.seen :
               Abs(last.tick.tickNumber - last.target) <= Abs(t - last.target))
    /\ (last.seen = {} => last.tick = NoTick)

\* the search saw two pages with ticks, neither holding the target, and
\* returned a tick of the second page, nearer than every tick of the first
C25_CloserTickOnLaterPage ==
  /\ Searched
  /\ last.attempts = BINARY_SEARCH_MAX_ATTEMPTS
  /\ ~last.within
  /\ Cardinality(last.seen) > PageSize
  /\ \E t \in last.seen :
       Abs(last.tick.tickNumber - last.target) < Abs(t - last.target)
  /\ last.tick.tickNumber = 106

---------------------------------------------------------------------------
(* Claims about the lookup getTickByNumber of client A.                    *)

LookedUpTick == last.op = "tickByNumber" /\ last.path # "cached"

\* the most upstream requests one lookup can make: the status, the estimated
\* page, the walk, and for each previous epoch a page and a page search
FetchBound ==
  1 + 1 + ADJACENT_PAGES + EPOCHS_BACK * (1 + BINARY_SEARCH_MAX_ATTEMPTS)

EstimatedPage == last.number \div PageSize

\* the tick numbers on the estimated page of the current epoch, as served
EstimatedPageTicks ==
  IF last.estimatedPageUp
  THEN TickNumbers(PageOf(Listing(last.currentEpoch), EstimatedPage, PageSize))
  ELSE {}

\* C26: on a cache miss getTickByNumber(n) asks for the estimated page
\* floor(n / pageSize) first; it asks for further pages of the current epoch
\* exactly when the ticks of that page are all above or all below n, five
\* pages at most, none above the estimated page when n is below its ticks and
\* none below it when n is above them; the call makes a bounded number of
\* upstream requests and always returns a record
C26_WalkIsBoundedAndDirected ==
  LookedUpTick =>
    /\ Len(last.pages) >= 1
    /\ last.pages[1] = EstimatedPage
    /\ Len(last.pages) <= 1 + ADJACENT_PAGES
    /\ (Len(last.pages) > 1 <=>
          /\ EstimatedPageTicks # {}
          /\ \/ \A t \in EstimatedPageTicks : last.number < t
             \/ \A t \in EstimatedPageTicks : last.number > t)
    /\ \A i \in 2..Len(last.pages) :
         /\ (\A t \in EstimatedPageTicks : last.number < t) =>
               last.pages[i] = Max(0, EstimatedPage - (i - 1))
         /\ (\A t \in EstimatedPageTicks : last.number > t) =>
               last.pages[i] = EstimatedPage + (i - 1)
    /\ last.fetches <= FetchBound
    /\ last.tick # NoTick
    /\ last.tick.tickNumber # Absent

\* a lookup walked five later pages, and another one earlier pages
C26_WalkedFiveLaterPages ==
  /\ LookedUpTick
  /\ Len(last.pages) = 1 + ADJACENT_PAGES
  /\ \A t \in EstimatedPageTicks : last.number > t
  /\ last.pages[1 + ADJACENT_PAGES] = EstimatedPage + ADJACENT_PAGES

---------------------------------------------------------------------------
(* Claims about the order in which findEpochForTick asks for epochs.       *)

\* findEpochForTick(n) was called while no cached range held n
SearchedForEpoch == FoundEpoch /\ HoldingEpochs(last.number) = {}

HeadDistance(e) ==
  IF e >= last.currentEpoch THEN e - last.currentEpoch ELSE last.currentEpoch - e

\* order lists epochs nearest to the current epoch first, the earlier epoch
\* before the later one at the same distance
NearestToHeadFirst(order) ==
  \A i, j \in 1..Len(order) :
    i < j => \/ HeadDistance(order[i]) < HeadDistance(order[j])
             \/ /\ HeadDistance(order[i]) = HeadDistance(order[j])
                /\ order[i] <= order[j]

\* order lists epochs without a cached range, and the call ended at the first
\* of them whose fetched range holds n
ProbedUntilContained(order) ==
  /\ \A i \in 1..Len(order) : order[i] \notin DOMAIN last.rangesBefore
  /\ \A i \in 1..(Len(order) - 1) :
        ~ (/\ order[i] \in DOMAIN last.rangesAfter
           /\ last.number >= last.rangesAfter[order[i]].minTickNumber
           /\ last.number <= last.rangesAfter[order[i]].maxTickNumber)
  /\ last.found => /\ Len(order) > 0
                   /\ last.epoch = order[Len(order)]

\* the loop around the current epoch alone asks for epochs nearest first
OutwardLoopNearestFirst ==
  SearchedForEpoch => NearestToHeadFirst(last.probed)

\* C27: when no cached range holds the tick, the epochs findEpochForTick
\* fetches pages of are epochs without a known range, asked for in the order
\* head, head-1, head+1, head-2, ..., and the call stops at the first one
\* whose range holds the tick
C27_ProbesNearestToHeadFirst ==
  SearchedForEpoch =>
    /\ NearestToHeadFirst(last.recent \o last.probed)
    /\ ProbedUntilContained(last.recent \o last.probed)

---------------------------------------------------------------------------
(* Claims about the end of findEpochForTick.                               *)

EpochBound == Max(MAX_EPOCHS_TO_CHECK, last.currentEpoch + 1)

HoldsNumber(ranges, e) ==
  /\ e \in DOMAIN ranges
  /\ last.number >= ranges[e].minTickNumber
  /\ last.number <= ranges[e].maxTickNumber

\* C28: a call of findEpochForTick that finds no cached range for the tick
\* asks only for epochs e >= 0 at most max(153, head + 1) away from the head
\* epoch, at most twice that many and two; an epoch that yields no ticks does
\* not end the search; the call returns an epoch whose observed range holds
\* the tick when there is one and the head epoch when there is none
C28_BoundedSearchFallsBackToHead ==
  SearchedForEpoch =>
    /\ \A i \in 1..Len(last.probed) :
         /\ last.probed[i] >= 0
         /\ HeadDistance(last.probed[i]) <= EpochBound
    /\ Len(last.probed) <= 2 * (EpochBound + 1)
    /\ Len(last.recent) <= Cardinality(last.listedBefore)
    /\ last.found <=> (\E e \in DOMAIN last.rangesAfter : HoldsNumber(last.rangesAfter, e))
    /\ last.found => HoldsNumber(last.rangesAfter, last.epoch)
    /\ ~last.found => last.epoch = last.currentEpoch

\* no range held the tick: every epoch up to the bound was asked for, those
\* without ticks too, and the head epoch was returned
C28_ExhaustedAndReturnedHead ==
  /\ SearchedForEpoch
  /\ ~last.found
  /\ last.epoch = last.currentEpoch
  /\ last.recent = << >>
  /\ Len(last.probed) > MAX_EPOCHS_TO_CHECK
  /\ \E i \in 1..Len(last.probed) :
        /\ last.probed[i] \notin DOMAIN last.rangesAfter
        /\ HeadDistance(last.probed[i]) = EpochBound
  /\ \E e \in DOMAIN last.rangesAfter : e \notin DOMAIN last.rangesBefore

---------------------------------------------------------------------------
(* Claims about the list getTicksInBlockRange returns.                     *)

\* the limit the controller passes to getTicksInBlockRange
MaxResultsPassed ==
  IF ctl = "new" THEN NEW_MAX_TICKS
  ELSE IF client = "A" THEN Infinity ELSE B_DEFAULT_MAX_RESULTS

StrictlyAscending(numbers) ==
  \A i, j \in 1..Len(numbers) : i < j => numbers[i] < numbers[j]

\* the list of client A, whose method sorts before it returns
SortedClientAscending ==
  (EventsAnswered /\ client = "A") =>
    /\ StrictlyAscending(last.ticks)
    /\ Len(last.ticks) <= Min(MaxResultsPassed, last.toBlock - last.fromBlock + 1)

\* C29: the tick numbers of the list getTicksInBlockRange(from, to,
\* maxResults) returns rise strictly from one entry to the next, and the list
\* has at most min(maxResults, to - from + 1) entries
C29_RangeTicksStrictlyAscending ==
  EventsAnswered =>
    /\ StrictlyAscending(last.ticks)
    /\ Len(last.ticks) <= Min(MaxResultsPassed, last.toBlock - last.fromBlock + 1)

---------------------------------------------------------------------------
(* Claims about the epochs the range collector searches.                   *)

RangeCollected == last.op = "rangeTicks"

\* the epochs whose range, as cached when the collector was called, overlaps
\* the range asked for
OverlappingEpochs ==
  { e \in DOMAIN last.rangesBefore :
      /\ last.rangesBefore[e].minTickNumber <= last.toBlock
      /\ last.rangesBefore[e].maxTickNumber >= last.fromBlock }

\* the epochs named by the definition that is not in effect are as described
NamedEpochsAsDescribed ==
  RangeCollected =>
    /\ OverlappingEpochs \subseteq last.epochs
    /\ OverlappingEpochs = {} =>
         /\ last.epochFound = "resolved"
         /\ last.epochs = Min(last.startEpoch, last.endEpoch)
                             .. Max(last.startEpoch, last.endEpoch)

\* C30: the epochs getTicksInBlockRange searches for [from, to] are the epochs
\* whose cached range overlaps [from, to] or, when there is none, the epochs
\* from the one found for from to the one found for to
C30_SearchesTheCandidateEpochs ==
  RangeCollected =>
    /\ OverlappingEpochs \subseteq last.searched
    /\ last.searched = last.epochs

---------------------------------------------------------------------------
(* Claims about the pages the range collector asks for (client A).         *)

PagesCollected == RangeCollected /\ client = "A"

FromBlockPage == last.fromBlock \div PageSize

ToBlockPage == last.toBlock \div PageSize

\* the epochs client A goes through: the current one and the five before it
EpochsGoneThrough ==
  { e \in (last.currentEpoch - EPOCHS_BACK)..last.currentEpoch : e >= 0 }

LimitReached ==
  Len(last.ticks) >= Min(MaxResultsPassed, last.toBlock - last.fromBlock + 1)

\* no page outside floor(from / pageSize) .. floor(to / pageSize) is asked for
NoPageOutsideInterval ==
  PagesCollected =>
    \A q \in last.asked : FromBlockPage <= q[2] /\ q[2] <= ToBlockPage

\* C31: unless the limit of ticks was reached, the range collector asks, for
\* each epoch it goes through, for every page floor(from / pageSize) <= p <=
\* floor(to / pageSize), and it asks for no page outside that interval
C31_EveryPageOfTheInterval ==
  PagesCollected =>
    /\ \A q \in last.asked : FromBlockPage <= q[2] /\ q[2] <= ToBlockPage
    /\ ~LimitReached =>
         \A e \in EpochsGoneThrough : \A p \in FromBlockPage..ToBlockPage :
           << e, p >> \in last.asked

---------------------------------------------------------------------------
(* Claims about failures inside the range collector and the extraction.    *)

\* the pages of epoch e the collector goes through: client A the pages of
\* the range, ten at most; client B, which reads whole epochs, every page
PagesGoneThrough(e) ==
  IF client = "A"
  THEN (last.fromBlock \div PageSize)
         .. Min(last.toBlock \div PageSize,
                (last.fromBlock \div PageSize) + MAX_RANGE_PAGES - 1)
  ELSE 0..(Len(Listing(e)) \div PageSize)

\* the ticks in range on the pages that upstream served to this request
ServedInRange ==
  UNION { TickNumbers(TicksBetween(FetchPage(e, p, PageSize, last.down),
                                   last.fromBlock, last.toBlock)) :
            e \in last.searched, p \in UNION { PagesGoneThrough(f) : f \in last.searched } }

CollectedAll ==
  Len(last.ticks) >= Min(MaxResultsPassed, last.toBlock - last.fromBlock + 1)

\* the events of the transactions of tick t, as upstream lists them
EventsDue(t) ==
  { UpTxs(t)[k].id : k \in { j \in 1..Len(UpTxs(t)) : Recognised(UpTxs(t)[j]) } }

\* after a tick whose transactions cannot be fetched the other ticks are
\* still processed
FailedTickDoesNotAbort ==
  EventsAnswered =>
    \A i \in 1..Len(last.ticks) :
      EpTx(last.ticks[i]) \notin last.down =>
        \A id \in EventsDue(last.ticks[i]) :
          \E k \in 1..Len(last.events) :
            /\ last.events[k].txnId = id
            /\ last.events[k].block.blockNumber = last.ticks[i]

\* C32: a page or a tick that fails does not end a /events request: the
\* ticks in range of every other page of the epochs searched are in the list
\* of the collector (unless the limit of ticks was reached), and the events
\* of every other collected tick are in the answer
C32_FailuresDoNotAbort ==
  EventsAnswered =>
    /\ ~CollectedAll => \A t \in ServedInRange : \E i \in 1..Len(last.ticks) : last.ticks[i] = t
    /\ \A i \in 1..Len(last.ticks) :
         EpTx(last.ticks[i]) \notin last.down =>
           \A id \in EventsDue(last.ticks[i]) :
             \E k \in 1..Len(last.events) :
               /\ last.events[k].txnId = id
               /\ last.events[k].block.blockNumber = last.ticks[i]

---------------------------------------------------------------------------
(* Claims about the transaction cache (client A).                          *)

AskedTransactions == last.op = "transactions"

\* C33: getTransactionsForTick(n) answers from the transaction cache, without
\* an upstream call and without a write, whenever the cache has a list for n,
\* an empty one included; otherwise it asks upstream and stores the list it
\* gets under n, and when that request fails it returns an empty list and
\* leaves the transaction cache as it was
C33_TransactionsFetchedOnce ==
  AskedTransactions =>
    /\ ~last.threw
    /\ last.tick \in DOMAIN last.before =>
         /\ ~last.called
         /\ last.txs = last.before[last.tick]
         /\ cache.transactions = last.before
    /\ (last.tick \notin DOMAIN last.before /\ last.failing) =>
         /\ last.called
         /\ last.txs = << >>
         /\ cache.transactions = last.before
    /\ (last.tick \notin DOMAIN last.before /\ ~last.failing) =>
         /\ last.called
         /\ last.txs = UpTxs(last.tick)
         /\ DOMAIN cache.transactions = DOMAIN last.before \cup {last.tick}
         /\ cache.transactions[last.tick] = UpTxs(last.tick)
         /\ \A t \in DOMAIN last.before : cache.transactions[t] = last.before[t]

\* an empty list was answered from the cache although upstream was failing
C33_EmptyListFromCache ==
  /\ AskedTransactions
  /\ last.tick \in DOMAIN last.before
  /\ last.before[last.tick] = << >>
  /\ last.failing
  /\ ~last.called
  /\ last.txs = << >>

---------------------------------------------------------------------------
(* Claims about the validation of /events.                                 *)

Queried == last.op = "query"

IsInteger(x) == ~x.nan /\ Abs(x.val) # Infinity

\* a request that does not reach the collector is answered 400 and leaves
\* the cache as it was
RejectedBeforeAnyAccess ==
  (Queried /\ ~last.invoked) => (last.status = 400 /\ last.untouched)

\* the collector never gets NaN, a negative number or from above to
NeverNaNNegativeOrReversed ==
  (Queried /\ last.invoked) =>
     /\ ~last.from.nan /\ ~last.to.nan
     /\ 0 <= last.from.val /\ last.from.val <= last.to.val

\* C34: the range collector is invoked only with integers from and to such
\* that 0 <= from <= to and to - from + 1 <= MAX_BLOCK_RANGE, and a request
\* that does not reach it is answered 400 with the cache untouched
C34_CollectorOnlyGetsValidatedRanges ==
  /\ RejectedBeforeAnyAccess
  /\ (Queried /\ last.invoked) =>
        /\ IsInteger(last.from) /\ IsInteger(last.to)
        /\ 0 <= last.from.val /\ last.from.val <= last.to.val
        /\ last.to.val - last.from.val + 1 <= MAX_BLOCK_RANGE

---------------------------------------------------------------------------
(* Claims about the keys of the tick cache.                                *)

\* C35: every entry of the tick cache is stored under its own tick number
C35_TickStoredUnderItsNumber ==
  \A k \in DOMAIN cache.ticks : cache.ticks[k].tickNumber = k

---------------------------------------------------------------------------
(* Claims about successive answers of /latest-block.                       *)

\* a /latest-block request is answered 200 right after an earlier one was
AnsweredAgain ==
  /\ last.op = "latest-block" /\ last.status = 200
  /\ last'.op = "latest-block" /\ last'.status = 200
  /\ served' = served + 1

\* C36: while the upstream head never decreases, a successful /latest-block
\* response never reports a smaller blockNumber than the successful response
\* before it
C36_LatestBlockMonotonic ==
  [][ AnsweredAgain => last'.block.blockNumber >= last.block.blockNumber ]_vars

---------------------------------------------------------------------------
(* Claims about the rate limiter.                                          *)

Limited == last.op = "limited"

\* the requests of an address among the first n of the log that were passed
\* on to a handler within the RATE_LIMIT_WINDOW milliseconds up to instant t
PassedOnWithin(ip, n, t) ==
  { i \in 1..n : /\ RequestLog[i].ip = ip /\ RequestLog[i].next
                 /\ RequestLog[i].at > t - RATE_LIMIT_WINDOW /\ RequestLog[i].at <= t }

\* at no instant have more than RATE_LIMIT requests of one address been
\* passed on within the window
NeverMoreThanLimit ==
  \A ip \in Addresses : Cardinality(PassedOnWithin(ip, Len(RequestLog), now)) <= RATE_LIMIT

\* what the address has on record is the requests passed on within the window
RecordedOf(ip) == CountsOf(requestCounts, ip)

\* C37: at most RATE_LIMIT requests of an address passed on within the
\* window reach a handler; a request arriving when RATE_LIMIT passed-on
\* requests lie in the window is answered 429 and is not recorded, a request
\* arriving when fewer do is recorded and passed on, and what is on record
\* for the other addresses stays as it was
C37_RateLimiter ==
  /\ NeverMoreThanLimit
  /\ Limited =>
       LET earlier == PassedOnWithin(last.ip, Len(last.log) - 1, last.at)
       IN /\ Cardinality(earlier) >= RATE_LIMIT =>
               /\ last.status = 429 /\ ~last.next
               /\ Len(RecordedOf(last.ip)) = RATE_LIMIT
               /\ \A i \in 1..Len(RecordedOf(last.ip)) :
                     \E j \in earlier : last.log[j].at = RecordedOf(last.ip)[i]
          /\ Cardinality(earlier) < RATE_LIMIT =>
               /\ last.next
               /\ Len(RecordedOf(last.ip)) = Cardinality(earlier) + 1
               /\ RecordedOf(last.ip)[Len(RecordedOf(last.ip))] = last.at
          /\ \A ip \in Addresses \ {last.ip} :
               /\ ip \in DOMAIN requestCounts <=> ip \in DOMAIN last.before
               /\ RecordedOf(ip) = CountsOf(last.before, ip)

\* a request was answered 429 with the window full, after an older request
\* of the same address had left the window, while the other address had a
\* request passed on
C37_RejectedWithFullWindow ==
  /\ Limited /\ last.status = 429
  /\ Cardinality(PassedOnWithin(last.ip, Len(last.log), last.at)) = RATE_LIMIT
  /\ \E i \in 1..Len(last.log) :
        /\ last.log[i].ip = last.ip /\ last.log[i].next
        /\ last.log[i].at <= last.at - RATE_LIMIT_WINDOW
  /\ \E i \in 1..Len(last.log) : last.log[i].ip # last.ip /\ last.log[i].next

---------------------------------------------------------------------------
(* Claims about the end of the paging loop.                                *)

PagingEnded == paging.running /\ paging.ended # "none"

\* the loop makes at most 2 * MAX_EMPTY_PAGES requests without ticks in a
\* row, so at most 2 * MAX_EMPTY_PAGES for each page with ticks and as many
\* after the last one
RequestsBounded ==
  paging.requests <= (paging.dataPages + 1) * 2 * MAX_EMPTY_PAGES

\* the ends that do not depend on the count of empty pages
EndedOtherwise ==
  \/ paging.ended = "shortPage"
  \/ paging.ended = "error"
  \/ paging.ended = "limit" /\ paging.collected >= paging.maxTicks

\* the loop ended on an empty page or a 429 answer as the count of answers
\* without ticks in a row, of both kinds together, reached its limit
EndedOnSharedCount ==
  \/ /\ paging.ended = "emptyPages"
     /\ paging.emptyRun >= 1
     /\ paging.noData >= MAX_EMPTY_PAGES
  \/ /\ paging.ended = "rateLimited"
     /\ paging.limitedRun >= 1
     /\ paging.noData = 2 * MAX_EMPTY_PAGES

\* the loop ended after MAX_EMPTY_PAGES empty pages in a row or after 429
\* answers in a row, at most 2 * MAX_EMPTY_PAGES of them
EndedOnSeparateCounts ==
  \/ /\ paging.ended = "emptyPages"
     /\ paging.emptyRun = MAX_EMPTY_PAGES
  \/ /\ paging.ended = "rateLimited"
     /\ paging.limitedRun >= 1 /\ paging.limitedRun <= 2 * MAX_EMPTY_PAGES

\* the loop goes on after an empty page or a 429 answer only below the limit
GoesOnBelowCount ==
  (paging.running /\ paging.ended = "none") =>
     /\ paging.emptyRun >= 1 => paging.noData < MAX_EMPTY_PAGES
     /\ paging.limitedRun >= 1 => paging.noData < 2 * MAX_EMPTY_PAGES

\* a loop that has begun ends
PagingTerminates == paging.running ~> PagingEnded

---------------------------------------------------------------------------
(* Claims about the cached listings and ranges of the epochs.              *)

\* the epochs whose cached listing is not empty
ListedInCache == { e \in DOMAIN cache.epochData : Len(cache.epochData[e]) > 0 }

\* C39: every epoch with a cached listing that is not empty has a cached
\* range, equal to the least and the greatest tick number of the listing,
\* and the listing is in descending order of tick number
C39_RangeMatchesListing ==
  \A e \in ListedInCache :
    /\ e \in DOMAIN cache.epochRanges
    /\ \E i \in 1..Len(cache.epochData[e]) :
         cache.epochData[e][i].tickNumber = cache.epochRanges[e].minTickNumber
    /\ \E i \in 1..Len(cache.epochData[e]) :
         cache.epochData[e][i].tickNumber = cache.epochRanges[e].maxTickNumber
    /\ \A i \in 1..Len(cache.epochData[e]) :
         /\ cache.epochData[e][i].tickNumber >= cache.epochRanges[e].minTickNumber
         /\ cache.epochData[e][i].tickNumber <= cache.epochRanges[e].maxTickNumber
    /\ \A i \in 1..(Len(cache.epochData[e]) - 1) :
         cache.epochData[e][i].tickNumber >= cache.epochData[e][i + 1].tickNumber

\* two epochs are cached with their listings, one of them cut at an outage
C39_TwoEpochsListed ==
  /\ Cardinality(ListedInCache) >= 2
  /\ last.op = "epochFetch" /\ ~last.fromCache
  /\ last.ended = "error" /\ Len(last.listed) >= 2

====
